---- MODULE Spec2Model ----
(***************************************************************************)
(* Working-memory lifecycle and promotion protocol of the memory service:  *)
(* the Redis short-term store (src/memory/redis_store.py), the MongoDB     *)
(* long-term store (src/memory/mongo_longterm.py), the service facade      *)
(* (src/memory/service.py) and the /short-term routes                      *)
(* (src/api/routers/short_term.py).                                        *)
(*                                                                         *)
(* Every handler is one action: the model is of sequential requests.       *)
(* Python's None is NoneStr in an Optional[str] and NoneInt in an          *)
(* Optional[int] or Optional[datetime]; an Optional[dict] result is a      *)
(* sequence of length 0 (None) or 1.                                       *)
(***************************************************************************)
EXTENDS Integers, Sequences, FiniteSets, TLC

\* ------------------------------------------------------------------ bounds
\* Number of short-term records (and generated message ids) a run may create.
MaxRecords == 1
\* Number of documents a run may insert into MongoDB.
MaxDocs == 2
\* Number of PATCH requests that find their record in a run.
MaxUpdates == 1
\* Last instant (in seconds) the clock may reach.
MaxTime == 60
\* Number of memories a run may store through the legacy router.
MaxMemories == 3

\* --------------------------------------------------------------- constants
\* strftime("%d-%m-%Y %H:%M") keeps whole minutes only.
SecondsPerMinute == 60
\* ShortTermMemoryBase.ttl default; ShortTermStore.update treats it as "no new ttl".
DefaultTtl == 600

NoneStr == "<None>"
NoneInt == -1

Agents == {"a1", "a2"}
ShortTermType == {"cache", "working"}

\* COLS of mongo_longterm.py: memory type -> collection.
COLS == [semantic |-> "lt_semantic", episodic |-> "lt_episodic",
         procedural |-> "lt_procedural", working_persisted |-> "lt_working_persisted"]
Collections == {COLS[t] : t \in DOMAIN COLS}

\* The clock advances in half minutes, so that instants inside one minute and
\* instants of different minutes both occur.
TickStep == SecondsPerMinute \div 2

\* The n-th message id the generator hands out ("msg_<ddmmYYYYHHMM>_<uuid4[:8]>"):
\* the random suffix makes successive ids distinct.
MsgPool == <<"m1", "m2", "m3", "m4", "m5", "m6", "m7", "m8">>
generate_message_id(n) == MsgPool[n]

\* ----------------------------------------------------------------- helpers
\* dict.get(f, default)
Get(d, f, default) == IF f \in DOMAIN d THEN d[f] ELSE default

\* Truthiness of an Optional[str]: None and "" are falsy.
Truthy(s) == s # NoneStr /\ s # ""

\* now.strftime("%d-%m-%Y %H:%M"): the instant's minute.
Strftime(t) == t \div SecondsPerMinute
\* datetime.strptime(s, "%d-%m-%Y %H:%M"): the first instant of that minute.
Strptime(s) == s * SecondsPerMinute

Reverse(s) == [i \in 1..Len(s) |-> s[Len(s) + 1 - i]]
RECURSIVE LStrip(_)
LStrip(v) == IF v # <<>> /\ Head(v) = " " THEN LStrip(Tail(v)) ELSE v
\* str.strip()
Strip(v) == Reverse(LStrip(Reverse(LStrip(v))))

\* f restricted to the keys in S
Restrict(f, S) == [x \in S |-> f[x]]

RECURSIVE PopAll(_, _)
\* for key_to_remove in remove_keys: memory.pop(key_to_remove, None)
PopAll(memory, remove_keys) ==
    IF remove_keys = <<>> THEN memory
    ELSE PopAll(Restrict(memory, DOMAIN memory \ {Head(remove_keys)}), Tail(remove_keys))

\* ShortTermStore._key / _idx
Key(mem_type, agent_id, id_) == <<"stm", mem_type, agent_id, id_>>
Idx(mem_type, agent_id) == <<"stmidx", mem_type, agent_id>>
AllIdx == {Idx(t, a) : t \in ShortTermType, a \in Agents}

\* Requests the event loop may hold suspended at the same time, and the record
\* of one that holds none.
Requests == {"c1", "c2"}
Idle == [op |-> "idle"]

\* ------------------------------------------- Chroma collection names
\* Agent ids as the characters they are made of: the agents of the other
\* tiers, and two ids that differ in one punctuation character.
AgentChars ==
    [a1 |-> <<"a", "1">>, a2 |-> <<"a", "2">>] @@ ("a.b" :> <<"a", ".", "b">>)
        @@ ("a-b" :> <<"a", "-", "b">>)
AlNum == {"a", "b", "g", "e", "n", "t", "0", "1", "2"}
MaxCollectionName == 63

\* re.sub(r"[^A-Za-z0-9_-]", "-", s)
ReplaceIllegal(v) ==
    [i \in 1..Len(v) |-> IF v[i] \in AlNum \cup {"_", "-"} THEN v[i] ELSE "-"]
Truncate(v, n) == IF Len(v) > n THEN SubSeq(v, 1, n) ELSE v
\* _VALID.fullmatch(s), ^[A-Za-z0-9][A-Za-z0-9_-]{1,61}[A-Za-z0-9]$
ValidCollectionName(v) ==
    /\ Len(v) >= 3 /\ Len(v) <= MaxCollectionName
    /\ v[1] \in AlNum /\ v[Len(v)] \in AlNum
    /\ \A i \in 2..(Len(v) - 1) : v[i] \in AlNum \cup {"_", "-"}
\* _sanitize_collection_name(raw)
SanitizeCollectionName(raw) ==
    LET s1 == ReplaceIllegal(Strip(raw))
        s2 == IF Len(s1) < 3 THEN <<"a", "g", "e", "n", "t", "-">> \o s1 ELSE s1
        s3 == IF s2[1] \notin AlNum THEN <<"a">> \o s2 ELSE s2
        s4 == IF s3[Len(s3)] \notin AlNum THEN Append(s3, "0") ELSE s3
        s5 == Truncate(s4, MaxCollectionName)
        s6 == IF s5[Len(s5)] \notin AlNum
              THEN Append(SubSeq(s5, 1, Len(s5) - 1), "0") ELSE s5
        fb == Truncate(<<"a", "g", "e", "n", "t", "-">>
                           \o SelectSeq(s6, LAMBDA ch : ch \in AlNum), MaxCollectionName)
    IN  IF ValidCollectionName(s6) THEN s6
        ELSE IF Len(fb) < 3 THEN <<"a", "g", "e", "n", "t", "-", "0", "0", "0">> ELSE fb
\* get_or_create_collection(agent_id): the collection an agent id names.
Collection(agent_id) == SanitizeCollectionName(AgentChars[agent_id])
ChromaCollections == {Collection(a) : a \in DOMAIN AgentChars}

\* ------------------------------------------------------------------- state
VARIABLES
    now,      \* wall clock, seconds
    store,    \* Redis string keys: key -> [val: the JSON document, exp: expiry instant]
    index,    \* Redis sorted sets: idx -> member ids in ascending score order
    db,       \* MongoDB: collection -> documents in insertion order
    nextUid,  \* number of record ids / message ids drawn so far, plus one
    nextDoc,  \* number of document ids drawn so far, plus one
    ret,      \* what the last handler returned
    nUpdates, \* number of successful updates so far
    written,  \* history: key -> the create request, and the exact instants of
              \* creation and of the last successful update, of each live key
    inflight, \* request -> what a handler suspended at an await has read so far
    chroma,   \* Chroma: collection name -> entries in insertion order
    graph     \* Neo4j: nodes (name, labels, properties) and edges ((node, type, node) -> properties)

vars == <<now, store, index, db, nextUid, nextDoc, ret, nUpdates, written, inflight,
          chroma, graph>>

Init ==
    /\ now = 0
    /\ store = <<>>
    /\ index = [i \in AllIdx |-> <<>>]
    /\ db = [c \in Collections |-> <<>>]
    /\ nextUid = 1
    /\ nextDoc = 1
    /\ nUpdates = 0
    /\ ret = [op |-> "init"]
    /\ written = <<>>
    /\ inflight = [c \in Requests |-> Idle]
    /\ chroma = [c \in ChromaCollections |-> <<>>]
    /\ graph = [nodes |-> <<>>, edges |-> <<>>]

\* GET key: the document, for a key that has not expired.
Live(key) == key \in DOMAIN store
\* ZREVRANGE idx 0 -1
ZRevRange(idx) == Reverse(index[idx])
\* ZREM idx members...
ZRem(zset, members) == SelectSeq(zset, LAMBDA id_ : id_ \notin members)

\* ------------------------------------------------------------------ inputs
KV1 == ("k" :> "v1") @@ ("old" :> "x")
STEP == ("step" :> "1")
EmptyDict == <<>>

\* Request bodies of POST /short-term/cache and /short-term/working
\* (ShortTermMemory; message_id is assigned by the service).
NoStages == [stages |-> <<>>, current_stage |-> NoneStr,
             context_log_summary |-> NoneStr, user_query |-> NoneStr]
SomeStages == [stages |-> <<"s1", "s2">>, current_stage |-> "s1",
               context_log_summary |-> "log", user_query |-> "q"]
ShortTermMemory(a, mem, t, r, w, x) ==
    [agent_id |-> a, memory |-> mem, ttl |-> t, run_id |-> r, workflow_id |-> w,
     stages |-> x.stages, current_stage |-> x.current_stage,
     context_log_summary |-> x.context_log_summary, user_query |-> x.user_query]
CacheInputs ==
    {ShortTermMemory("a1", KV1, TickStep, "r1", NoneStr, NoStages)}
WorkingInputs ==
    {ShortTermMemory("a1", STEP, DefaultTtl, "", "w1", SomeStages),
     ShortTermMemory("a1", KV1, TickStep, "r1", NoneStr, NoStages),
     ShortTermMemory("a2", STEP, DefaultTtl, "r1", "w1", SomeStages)}
ShortTermInputs(mem_type) == IF mem_type = "cache" THEN CacheInputs ELSE WorkingInputs

\* ------------------------------------------------- ShortTermStore.create
\* The JSON document create() stores (redis_payload).
RedisPayload(m, mem_type, id_, formatted_time) ==
    IF mem_type = "cache"
    THEN [id |-> id_, agent_id |-> m.agent_id, memory |-> m.memory,
          memory_type |-> mem_type, ttl |-> m.ttl, message_id |-> m.message_id,
          run_id |-> m.run_id, created_at |-> formatted_time, updated_at |-> NoneInt]
    ELSE [id |-> id_, agent_id |-> m.agent_id, memory |-> m.memory,
          memory_type |-> mem_type, ttl |-> m.ttl, message_id |-> m.message_id,
          run_id |-> m.run_id, workflow_id |-> m.workflow_id,
          stages |-> IF m.stages # <<>> THEN m.stages ELSE <<>>,
          current_stage |-> m.current_stage,
          context_log_summary |-> m.context_log_summary,
          user_query |-> m.user_query,
          created_at |-> formatted_time, updated_at |-> NoneInt]

\* POST /short-term/cache, /short-term/working -> MemoryService.add_short_term
\* -> ShortTermStore.create.  The route forces memory_type.
add_short_term(mem_type, req) ==
    /\ LET id_ == nextUid
           m   == req @@ [message_id |-> generate_message_id(nextUid)]
           key == Key(mem_type, m.agent_id, id_)
       IN  /\ store' = (key :> [val |-> RedisPayload(m, mem_type, id_, Strftime(now)),
                                exp |-> now + m.ttl]) @@ store
           /\ index' = [index EXCEPT ![Idx(mem_type, m.agent_id)] = Append(@, id_)]
           /\ written' = (key :> [m |-> m, created |-> now, updated |-> NoneInt]) @@ written
           /\ ret' = [op |-> "add_short_term",
                      val |-> [message_id |-> m.message_id, agent_id |-> m.agent_id,
                               memory_type |-> mem_type, created_at |-> Strftime(now),
                               ttl |-> m.ttl]]
    /\ nextUid' = nextUid + 1
    /\ UNCHANGED <<now, db, nextDoc, nUpdates, inflight, chroma, graph>>

\* ------------------------------------------------------------ time passing
\* The clock advances; Redis drops every string key whose EX has elapsed.
\* Sorted-set members carry no expiry.
Tick ==
    /\ now + TickStep <= MaxTime
    /\ now' = now + TickStep
    /\ store' = Restrict(store, {k \in DOMAIN store : store[k].exp > now + TickStep})
    /\ written' = Restrict(written, {k \in DOMAIN written : store[k].exp > now + TickStep})
    /\ UNCHANGED <<index, db, nextUid, nextDoc, nUpdates, ret, inflight, chroma, graph>>

\* ----------------------------------------------- ShortTermStore.get_many
\* The three "Apply filters" tests: a falsy filter is no filter.
PassesFilters(data, message_id, run_id, workflow_id) ==
    /\ ~(Truthy(message_id) /\ Get(data, "message_id", NoneStr) # message_id)
    /\ ~(Truthy(run_id) /\ Get(data, "run_id", NoneStr) # run_id)
    /\ ~(Truthy(workflow_id) /\ Get(data, "workflow_id", NoneStr) # workflow_id)

\* A faulty metadata, which reports updated_at whether or not it was set.
MetadataAlwaysUpdatedAt(data) ==
    [created_at |-> data.created_at, updated_at |-> Get(data, "updated_at", NoneInt)]

\* metadata: created_at always, updated_at only when the document has one.
Metadata(data) ==
    IF Get(data, "updated_at", NoneInt) # NoneInt
    THEN [created_at |-> data.created_at, updated_at |-> data.updated_at]
    ELSE [created_at |-> data.created_at]

\* A faulty clean_result, which reports the default ttl instead of the record's.
CleanResultDefaultTtl(mem_type, data) ==
    [f \in (DOMAIN data \ {"id", "created_at", "updated_at"}) \cup {"metadata"} |->
        IF f = "metadata" THEN Metadata(data)
        ELSE IF f = "ttl" THEN DefaultTtl ELSE data[f]]

\* clean_result
CleanResult(mem_type, data) ==
    IF mem_type = "cache"
    THEN [agent_id |-> data.agent_id, memory |-> data.memory, memory_type |-> "cache",
          ttl |-> data.ttl, message_id |-> data.message_id,
          run_id |-> Get(data, "run_id", NoneStr), metadata |-> Metadata(data)]
    ELSE [agent_id |-> data.agent_id, memory |-> data.memory, memory_type |-> "working",
          ttl |-> data.ttl, message_id |-> data.message_id,
          run_id |-> Get(data, "run_id", NoneStr),
          workflow_id |-> Get(data, "workflow_id", NoneStr),
          stages |-> Get(data, "stages", <<>>),
          current_stage |-> Get(data, "current_stage", NoneStr),
          context_log_summary |-> Get(data, "context_log_summary", NoneStr),
          user_query |-> Get(data, "user_query", NoneStr),
          metadata |-> Metadata(data)]

\* A faulty read that drops every member from the index, the live ones too.
ToPruneEveryMember(mem_type, agent_id) == ZRevRange(Idx(mem_type, agent_id))

\* A faulty to_prune, which never collects a stale id.
ToPruneNothing(mem_type, agent_id) == <<>>

\* to_prune: the index members whose GET returned None, whatever the filters.
ToPrune(mem_type, agent_id) ==
    SelectSeq(ZRevRange(Idx(mem_type, agent_id)),
              LAMBDA id_ : ~Live(Key(mem_type, agent_id, id_)))

\* results: newest first, the live documents that pass the filters.
GetManyResults(mem_type, agent_id, message_id, run_id, workflow_id) ==
    LET hits == SelectSeq(ZRevRange(Idx(mem_type, agent_id)),
                    LAMBDA id_ :
                        /\ Live(Key(mem_type, agent_id, id_))
                        /\ PassesFilters(store[Key(mem_type, agent_id, id_)].val,
                                         message_id, run_id, workflow_id))
    IN  [i \in 1..Len(hits) |->
            CleanResult(mem_type, store[Key(mem_type, agent_id, hits[i])].val)]

\* The index after get_many: "if to_prune: zrem(idx, *to_prune)".
PrunedIndex(mem_type, agent_id) ==
    LET to_prune == ToPrune(mem_type, agent_id)
    IN  IF to_prune # <<>>
        THEN [index EXCEPT ![Idx(mem_type, agent_id)] =
                 ZRem(@, {to_prune[i] : i \in 1..Len(to_prune)})]
        ELSE index

\* Query strings of the GET routes: message_id, run_id, workflow_id.
GetFilters ==
    { <<NoneStr, NoneStr, NoneStr>>, <<"m1", "r1", NoneStr>> }

\* GET /short-term/cache, /short-term/working -> MemoryService.get_short_term
\* -> ShortTermStore.get_many
get_short_term(mem_type, agent_id, message_id, run_id, workflow_id) ==
    /\ index' = PrunedIndex(mem_type, agent_id)
    /\ ret' = [op |-> "get_many", to_prune |-> ToPrune(mem_type, agent_id),
               val |-> GetManyResults(mem_type, agent_id, message_id, run_id, workflow_id)]
    /\ UNCHANGED <<now, store, db, nextUid, nextDoc, nUpdates, written, inflight, chroma, graph>>

\* ------------------------------------------------- ShortTermStore.update
\* Request bodies of PATCH /short-term/cache and /short-term/working.
\* stages = <<>> stands for both None and [] (one branch in the code).
NoFields == [workflow_id |-> NoneStr, stages |-> <<>>, current_stage |-> NoneStr,
             context_log_summary |-> NoneStr, user_query |-> NoneStr]
NewFields == [workflow_id |-> "w2", stages |-> <<"s3">>, current_stage |-> "s3",
              context_log_summary |-> "log2", user_query |-> "q2"]
ShortTermMemoryUpdate(a, mid, u, r, f, t) ==
    [agent_id |-> a, message_id |-> mid, memory_updates |-> u, remove_keys |-> r,
     workflow_id |-> f.workflow_id, stages |-> f.stages, current_stage |-> f.current_stage,
     context_log_summary |-> f.context_log_summary, user_query |-> f.user_query,
     ttl |-> t]
ReplaceAndRemove ==
    [memory_updates |-> ("k" :> "v2"), remove_keys |-> <<"old">>, f |-> NoFields,
     ttl |-> NoneInt]
SetAndRemoveSameKey ==
    [memory_updates |-> ("k" :> "v2"), remove_keys |-> <<"k">>, f |-> NoFields,
     ttl |-> 2 * TickStep]
AddKeyAndFields ==
    [memory_updates |-> ("n" :> "v3"), remove_keys |-> <<"zz">>, f |-> NewFields,
     ttl |-> NoneInt]
\* A body whose payload keys are named like the record's own fields.
IdentityNamedKeys ==
    [memory_updates |-> ("message_id" :> "zz"), remove_keys |-> <<"agent_id", "created_at">>,
     f |-> NewFields, ttl |-> NoneInt]
\* A body whose working fields are empty strings and an empty list.
EmptyFields == [workflow_id |-> "", stages |-> <<>>, current_stage |-> "",
                context_log_summary |-> "", user_query |-> ""]
AddKeyAndEmptyFields ==
    [memory_updates |-> ("c" :> "v4"), remove_keys |-> <<>>, f |-> EmptyFields,
     ttl |-> DefaultTtl]
UpdateInputs(kinds) ==
    {ShortTermMemoryUpdate(a, mid, k.memory_updates, k.remove_keys, k.f, k.ttl) :
        a \in Agents, mid \in {MsgPool[i] : i \in 1..MaxRecords}, k \in kinds}

\* The scan "for id_ in ids": the first live document whose message_id matches,
\* as a sequence of its id (empty when the scan finds none).
ScanForMessageId(mem_type, agent_id, message_id) ==
    SelectSeq(ZRevRange(Idx(mem_type, agent_id)),
              LAMBDA id_ :
                  /\ Live(Key(mem_type, agent_id, id_))
                  /\ Get(store[Key(mem_type, agent_id, id_)].val, "message_id", NoneStr)
                         = message_id)

\* A faulty order: the keys are popped before memory_updates is applied.
RemoveThenUpdate(memory, memory_updates, remove_keys) ==
    memory_updates @@ PopAll(memory, remove_keys)

\* memory.update(memory_updates), then pop every key of remove_keys.
ApplyMemoryUpdates(memory, memory_updates, remove_keys) ==
    PopAll(memory_updates @@ memory, remove_keys)

\* A faulty variant: every field that is not None overwrites, the empty ones too.
ApplyWorkingFieldsNotNone(data, update) ==
    [data EXCEPT
        !.workflow_id = IF update.workflow_id # NoneStr THEN update.workflow_id ELSE @,
        !.stages = update.stages,
        !.current_stage = IF update.current_stage # NoneStr THEN update.current_stage ELSE @,
        !.context_log_summary =
            IF update.context_log_summary # NoneStr THEN update.context_log_summary ELSE @,
        !.user_query = IF update.user_query # NoneStr THEN update.user_query ELSE @]

\* The working-memory fields: a truthy value overwrites, a falsy one is skipped.
ApplyWorkingFields(data, update) ==
    [data EXCEPT
        !.workflow_id = IF Truthy(update.workflow_id) THEN update.workflow_id ELSE @,
        !.stages = IF Len(update.stages) > 0 THEN update.stages ELSE @,
        !.current_stage = IF Truthy(update.current_stage) THEN update.current_stage ELSE @,
        !.context_log_summary =
            IF Truthy(update.context_log_summary) THEN update.context_log_summary ELSE @,
        !.user_query = IF Truthy(update.user_query) THEN update.user_query ELSE @]

\* The document update() writes back and returns.
UpdatedData(mem_type, data, update, t) ==
    LET d == [data EXCEPT
                 !.memory = ApplyMemoryUpdates(Get(data, "memory", EmptyDict),
                                               update.memory_updates, update.remove_keys),
                 !.updated_at = Strftime(t)]
    IN  IF mem_type = "working" THEN ApplyWorkingFields(d, update) ELSE d

\* A faulty EX, which gives every written-back record the default lifetime.
UpdateTtlAlwaysDefault(data, update) == DefaultTtl

\* The EX of the write-back: "if update.ttl and update.ttl > 0 and update.ttl != 600".
UpdateTtl(data, update) ==
    IF update.ttl # NoneInt /\ update.ttl # 0 /\ update.ttl > 0 /\ update.ttl # DefaultTtl
    THEN update.ttl
    ELSE Get(data, "ttl", DefaultTtl)

\* PATCH /short-term/cache, /short-term/working -> MemoryService.update_short_term
\* -> ShortTermStore.update.  The route forces memory_type.
update_short_term(mem_type, update) ==
    LET found == ScanForMessageId(mem_type, update.agent_id, update.message_id)
        key   == Key(mem_type, update.agent_id, found[1])
        data  == UpdatedData(mem_type, store[key].val, update, now)
    IN  IF found = <<>>
        THEN /\ ret' = [op |-> "update", val |-> <<>>]
             /\ UNCHANGED <<now, store, index, db, nextUid, nextDoc, nUpdates, written, inflight, chroma, graph>>
        ELSE /\ nUpdates' = nUpdates + 1
             /\ store' = [store EXCEPT ![key] =
                             [val |-> data,
                              exp |-> now + UpdateTtl(store[key].val, update)]]
             /\ written' = [written EXCEPT ![key].updated = now]
             /\ ret' = [op |-> "update", val |-> <<data>>]
             /\ UNCHANGED <<now, index, db, nextUid, nextDoc, inflight, chroma, graph>>

\* ------------------------------- ShortTermStore.delete_by_message_id / delete_all
\* delete_all's return value: len(ids), the number of index members.
DeleteAllCount(mem_type, agent_id) == Len(ZRevRange(Idx(mem_type, agent_id)))

\* The keys delete_all's pipeline deletes: one per index member.
DeleteAllKeys(mem_type, agent_id) ==
    {Key(mem_type, agent_id, index[Idx(mem_type, agent_id)][i]) :
        i \in 1..Len(index[Idx(mem_type, agent_id)])}

\* DELETE /short-term/cache, /short-term/working -> MemoryService.delete_short_term:
\* delete_by_message_id for a truthy message_id, delete_all otherwise.
delete_short_term(mem_type, agent_id, message_id) ==
    LET found == ScanForMessageId(mem_type, agent_id, message_id)
        key   == Key(mem_type, agent_id, found[1])
        gone  == DeleteAllKeys(mem_type, agent_id)
    IN  /\ IF Truthy(message_id)
           THEN IF found = <<>>
                THEN /\ ret' = [op |-> "delete", status |-> "not_found",
                                message_id |-> message_id, deleted_count |-> 0]
                     /\ UNCHANGED <<store, index, written>>
                ELSE /\ store' = Restrict(store, DOMAIN store \ {key})
                     /\ written' = Restrict(written, DOMAIN written \ {key})
                     /\ index' = [index EXCEPT ![Idx(mem_type, agent_id)] =
                                     ZRem(@, {found[1]})]
                     /\ ret' = [op |-> "delete", status |-> "deleted",
                                message_id |-> message_id, deleted_count |-> 1]
           ELSE /\ store' = Restrict(store, DOMAIN store \ gone)
                /\ written' = Restrict(written, DOMAIN written \ gone)
                /\ index' = [index EXCEPT ![Idx(mem_type, agent_id)] = <<>>]
                /\ ret' = [op |-> "delete", status |-> "flushed",
                           deleted_count |-> DeleteAllCount(mem_type, agent_id)]
        /\ UNCHANGED <<now, db, nextUid, nextDoc, nUpdates, inflight, chroma, graph>>

\* ---------------------- ShortTermStore.delete_by_message_id, await by await
\* A request slot that can start a request: nothing suspended in it.
Free(c) == inflight[c].op \in {"idle", "deleted", "updated"}

\* A faulty delete that sends only the DEL.
PipeExecuteDelOnly(key, idx, id_) ==
    /\ store' = Restrict(store, DOMAIN store \ {key})
    /\ index' = index

\* The pipeline of delete_by_message_id: DEL key and ZREM idx id_ queued on
\* r.pipeline() (transaction=True, the redis-py default) and sent by execute()
\* as one MULTI/EXEC.
PipeExecute(key, idx, id_) ==
    /\ store' = Restrict(store, DOMAIN store \ {key})
    /\ index' = [index EXCEPT ![idx] = ZRem(@, {id_})]

\* The reads of delete_by_message_id (zrevrange, then get of each key) up to
\* the match: the handler is suspended before its pipeline is sent.
delete_by_message_id_scan(c, mem_type, agent_id, message_id) ==
    LET found == ScanForMessageId(mem_type, agent_id, message_id)
    IN  /\ Free(c)
        /\ IF found = <<>>
           THEN /\ ret' = [op |-> "delete", status |-> "not_found",
                           message_id |-> message_id, deleted_count |-> 0]
                /\ inflight' = [inflight EXCEPT ![c] = Idle]
           ELSE /\ inflight' = [inflight EXCEPT ![c] =
                                   [op |-> "delete", mem_type |-> mem_type,
                                    agent_id |-> agent_id, message_id |-> message_id,
                                    id_ |-> found[1]]]
                /\ ret' = ret
        /\ UNCHANGED <<now, store, index, db, nextUid, nextDoc, nUpdates, written, chroma, graph>>

\* "await pipe.execute(); return True" and the response of delete_short_term.
\* The slot keeps the finished request until its next one starts.
delete_by_message_id_execute(c) ==
    LET d   == inflight[c]
        key == Key(d.mem_type, d.agent_id, d.id_)
    IN  /\ d.op = "delete"
        /\ PipeExecute(key, Idx(d.mem_type, d.agent_id), d.id_)
        /\ written' = Restrict(written, DOMAIN written \ {key})
        /\ ret' = [op |-> "delete", status |-> "deleted",
                   message_id |-> d.message_id, deleted_count |-> 1]
        /\ inflight' = [inflight EXCEPT ![c] = [d EXCEPT !.op = "deleted"]]
        /\ UNCHANGED <<now, db, nextUid, nextDoc, nUpdates, chroma, graph>>

\* ------------------------------------- ShortTermStore.update, await by await
\* The reads of update (zrevrange, then get of each key) up to the match, and
\* the new document computed from what was read.
update_scan(c, mem_type, update) ==
    LET found == ScanForMessageId(mem_type, update.agent_id, update.message_id)
        key   == Key(mem_type, update.agent_id, found[1])
    IN  /\ Free(c)
        /\ IF found = <<>>
           THEN /\ ret' = [op |-> "update", val |-> <<>>]
                /\ inflight' = [inflight EXCEPT ![c] = Idle]
                /\ UNCHANGED nUpdates
           ELSE /\ inflight' = [inflight EXCEPT ![c] =
                                   [op |-> "update_short_term", key |-> key,
                                    data |-> UpdatedData(mem_type, store[key].val, update, now),
                                    ttl |-> UpdateTtl(store[key].val, update),
                                    w |-> written[key]]]
                /\ nUpdates' = nUpdates + 1
                /\ ret' = ret
        /\ UNCHANGED <<now, store, index, db, nextUid, nextDoc, written, chroma, graph>>

\* A faulty write, which merges its payload into whatever the key holds now.
update_set_merging(c) ==
    LET u == inflight[c]
        current == IF u.key \in DOMAIN store THEN store[u.key].val.memory ELSE <<>>
        merged == [u.data EXCEPT !.memory = @ @@ current]
    IN  /\ u.op = "update_short_term"
        /\ store' = (u.key :> [val |-> merged, exp |-> now + u.ttl])
                        @@ Restrict(store, DOMAIN store \ {u.key})
        /\ written' = (u.key :> [u.w EXCEPT !.updated = now])
                        @@ Restrict(written, DOMAIN written \ {u.key})
        /\ ret' = [op |-> "update", val |-> <<merged>>]
        /\ inflight' = [inflight EXCEPT ![c] = [op |-> "updated", key |-> u.key,
                                                data |-> merged]]
        /\ UNCHANGED <<now, index, db, nextUid, nextDoc, nUpdates, chroma, graph>>

\* "await self.r.set(key, json.dumps(data), ex=ttl); return data": SET writes
\* the key whether or not it still exists; the request's returned document is
\* kept with the finished request.
update_set(c) ==
    LET u == inflight[c]
    IN  /\ u.op = "update_short_term"
        /\ store' = (u.key :> [val |-> u.data, exp |-> now + u.ttl])
                        @@ Restrict(store, DOMAIN store \ {u.key})
        /\ written' = (u.key :> [u.w EXCEPT !.updated = now])
                        @@ Restrict(written, DOMAIN written \ {u.key})
        /\ ret' = [op |-> "update", val |-> <<u.data>>]
        /\ inflight' = [inflight EXCEPT ![c] = [op |-> "updated", key |-> u.key,
                                                data |-> u.data]]
        /\ UNCHANGED <<now, index, db, nextUid, nextDoc, nUpdates, chroma, graph>>

\* ------------------------------------ MemoryService.persist_working_memory
\* Optional fields of WorkingMemoryPersisted and the None of each.
OptionalFields ==
    [run_id |-> NoneStr, workflow_id |-> NoneStr, current_stage |-> NoneStr,
     context_log_summary |-> NoneStr, user_query |-> NoneStr,
     updated_at |-> NoneInt, original_ttl |-> NoneInt]

\* model_dump(exclude_none=True)
ExcludeNone(m) ==
    Restrict(m, {f \in DOMAIN m : ~(f \in DOMAIN OptionalFields /\ m[f] = OptionalFields[f])})

\* A faulty promotion, which drops the source's updated_at.
PersistedUpdatedAtDropped(wm) == NoneInt

\* updated_at of the persisted model: parsed from the metadata when present.
PersistedUpdatedAt(wm) ==
    IF "metadata" \in DOMAIN wm /\ Get(wm.metadata, "updated_at", NoneInt) # NoneInt
    THEN Strptime(wm.metadata.updated_at)
    ELSE NoneInt

\* WorkingMemoryPersisted(...) built from one get_many result at instant t.
WorkingMemoryPersisted(wm, t) ==
    [agent_id |-> wm.agent_id, memory |-> wm.memory, memory_type |-> "working_persisted",
     message_id |-> wm.message_id, run_id |-> Get(wm, "run_id", ""),
     workflow_id |-> Get(wm, "workflow_id", ""), stages |-> Get(wm, "stages", <<>>),
     current_stage |-> Get(wm, "current_stage", ""),
     context_log_summary |-> Get(wm, "context_log_summary", ""),
     user_query |-> Get(wm, "user_query", ""),
     created_at |-> Get(wm, "created_at", t), persisted_at |-> t,
     original_ttl |-> Get(wm, "ttl", NoneInt), updated_at |-> PersistedUpdatedAt(wm),
     tags |-> <<>>, version |-> 1]

\* A faulty insert, which loses original_ttl.
WorkingPersistedDocNoTtl(m, doc_id) ==
    [id |-> doc_id] @@ ExcludeNone([m EXCEPT !.original_ttl = NoneInt])

\* LongTermStore.create_working_persisted: the document inserted.
WorkingPersistedDoc(m, doc_id) == [id |-> doc_id] @@ ExcludeNone(m)

\* The documents one persist call inserts, in the order of working_memories.
PersistedDocs(working_memories, t, first_id) ==
    [i \in 1..Len(working_memories) |->
        WorkingPersistedDoc(WorkingMemoryPersisted(working_memories[i], t), first_id + i - 1)]

\* The service's result dict.
PersistResult(agent_id, workflow_id, working_memories) ==
    IF working_memories = <<>>
    THEN [status |-> "no_memories_found", agent_id |-> agent_id,
          workflow_id |-> workflow_id, persisted_count |-> 0]
    ELSE [status |-> "success", agent_id |-> agent_id, workflow_id |-> workflow_id,
          persisted_count |-> Len(working_memories),
          message_ids |-> [i \in 1..Len(working_memories) |-> working_memories[i].message_id],
          storage |-> "mongodb_working_persisted"]

\* The route's response, built from the service's result (named persisted_ids there).
PersistResponse(agent_id, workflow_id, persisted_ids) ==
    [status |-> "success", agent_id |-> agent_id, workflow_id |-> workflow_id,
     persisted_count |-> Cardinality(DOMAIN persisted_ids),
     persisted_message_ids |-> persisted_ids]

\* POST /short-term/working/persist -> MemoryService.persist_working_memory
persist_working_memory(agent_id, workflow_id) ==
    LET working_memories == GetManyResults("working", agent_id, NoneStr, NoneStr, workflow_id)
        result == PersistResult(agent_id, workflow_id, working_memories)
    IN  /\ nextDoc + Len(working_memories) - 1 <= MaxDocs
        /\ index' = PrunedIndex("working", agent_id)
        /\ db' = [db EXCEPT ![COLS["working_persisted"]] =
                     @ \o PersistedDocs(working_memories, now, nextDoc)]
        /\ nextDoc' = nextDoc + Len(working_memories)
        /\ ret' = [op |-> "persist", val |-> result,
                   response |-> PersistResponse(agent_id, workflow_id, result)]
        /\ UNCHANGED <<now, store, nextUid, nUpdates, written, inflight, chroma, graph>>

\* A faulty loop that undoes its inserts when a later one raises.
FailedBatchRolledBack(docs, k) == <<>>

\* What the loop "for wm in working_memories" has inserted when the k-th
\* create_working_persisted raises: the awaits of the k-1 earlier iterations
\* have completed, nothing catches the exception, nothing undoes them.
FailedBatch(docs, k) == SubSeq(docs, 1, k - 1)

\* persist_working_memory when the k-th create_working_persisted raises (the
\* validation of WorkingMemoryPersisted, ensure_indexes or insert_one): the
\* exception leaves the loop, the service and the route; no result is returned.
persist_working_memory_raises(agent_id, workflow_id, k) ==
    LET working_memories == GetManyResults("working", agent_id, NoneStr, NoneStr, workflow_id)
    IN  /\ k \in 1..Len(working_memories)
        /\ nextDoc + k - 2 <= MaxDocs
        /\ index' = PrunedIndex("working", agent_id)
        /\ db' = [db EXCEPT ![COLS["working_persisted"]] =
                     @ \o FailedBatch(PersistedDocs(working_memories, now, nextDoc), k)]
        /\ nextDoc' = nextDoc + k - 1
        /\ ret' = [op |-> "persist_raised", failed |-> k,
                   message_id |-> working_memories[k].message_id]
        /\ UNCHANGED <<now, store, nextUid, nUpdates, written, inflight, chroma, graph>>

\* ------------------------------------------------ Neo4jAssociativeStore
\* Relation names are sequences of characters over a small alphabet.
UpperLetters == {"A", "K"}
Digits == {"1"}
ToUpper == [a |-> "A", k |-> "K"]

\* str.upper()
Upper(v) == [i \in 1..Len(v) |-> IF v[i] \in DOMAIN ToUpper THEN ToUpper[v[i]] ELSE v[i]]
\* str.replace(" ", "_")
ReplaceSpaces(v) == [i \in 1..Len(v) |-> IF v[i] = " " THEN "_" ELSE v[i]]
\* relation.strip().upper().replace(" ", "_")
NormalizeRelation(v) == ReplaceSpaces(Upper(Strip(v)))

\* REL_TYPE_REGEX.fullmatch(rel_type), ^[A-Z][A-Z0-9_]*$
RelTypeMatches(rel_type) ==
    /\ rel_type # <<>>
    /\ rel_type[1] \in UpperLetters
    /\ \A i \in 2..Len(rel_type) : rel_type[i] \in UpperLetters \cup Digits \cup {"_"}

\* The nodes a MERGE pattern (e:L1:L2 {name: $name}) matches: those carrying
\* the name and every listed label.  No uniqueness constraint narrows this:
\* only startup() creates it and nothing calls startup().
MatchingNodes(g, name, labels) ==
    {i \in 1..Len(g.nodes) : g.nodes[i].name = name /\ labels \subseteq g.nodes[i].labels}

\* upsert_entity: MERGE (e:Entity:<labels> {name}) SET e += props; the node is
\* created with the pattern's labels when nothing matches.
UpsertEntity(g, name, labels, props) ==
    LET label_set == {"Entity"} \cup labels
        hits      == MatchingNodes(g, name, label_set)
    IN  IF hits = {}
        THEN [g EXCEPT !.nodes = Append(@, [name |-> name, labels |-> label_set,
                                            props |-> props])]
        ELSE [g EXCEPT !.nodes = [i \in 1..Len(@) |->
                                    IF i \in hits
                                    THEN [@[i] EXCEPT !.props = props @@ @]
                                    ELSE @[i]]]

\* The Cypher of upsert_relation: MERGE both nodes, MERGE the edge between every
\* matched pair, SET r += props.
MergeRelation(g, source, rel_type, target, rel_props) ==
    LET g2    == UpsertEntity(UpsertEntity(g, source, {}, <<>>), target, {}, <<>>)
        pairs == {<<a, rel_type, b>> : a \in MatchingNodes(g2, source, {"Entity"}),
                                       b \in MatchingNodes(g2, target, {"Entity"})}
    IN  [g2 EXCEPT !.edges = [e \in pairs |-> rel_props @@ Get(g2.edges, e, <<>>)] @@ @]

\* The relation names the callers and the extractor produce.
RelationInputs ==
    { <<"k", "a">>, <<" ", "a", " ", "k">>, <<"1", "a">>, <<"a", "-", "k">>, <<" ">> }
EntityNames == {"e1", "e2"}
\* EntityIn.labels after the falsy ones are dropped; each passes the label pattern.
EntityLabels == {{}, {"Person"}}

\* POST /long-term/associative/entity
upsert_entity(name, labels, props) ==
    /\ graph' = UpsertEntity(graph, name, labels, props)
    /\ ret' = [op |-> "upsert_entity", status |-> "ok", entity |-> name]
    /\ UNCHANGED <<now, store, index, db, nextUid, nextDoc, nUpdates, written, inflight,
                   chroma>>

\* The graph the relation route leaves: nothing is written when RelationIn's
\* validator refuses the name; otherwise both entities are upserted, and the
\* relation is merged when the handler's own normalisation still matches.
RelationRouteGraph(g, payload) ==
    LET rel      == NormalizeRelation(payload.relation)
        rel_type == NormalizeRelation(rel)
        g2       == UpsertEntity(UpsertEntity(g, payload.source, {}, <<>>),
                                 payload.target, {}, <<>>)
    IN  IF ~RelTypeMatches(rel) THEN g
        ELSE IF ~RelTypeMatches(rel_type) THEN g2
        ELSE MergeRelation(g2, payload.source, rel_type, payload.target, payload.props)

\* POST /long-term/associative/relation: RelationIn's validator normalises the
\* relation and refuses a name that fails the pattern before the handler runs;
\* the handler normalises again, upserts both entities, then the relation.
upsert_relation(payload) ==
    LET rel      == NormalizeRelation(payload.relation)
        rel_type == NormalizeRelation(rel)
    IN  /\ ret' = IF ~RelTypeMatches(rel)
                  THEN [op |-> "upsert_relation", status |-> "invalid"]
                  ELSE IF ~RelTypeMatches(rel_type)
                  THEN [op |-> "upsert_relation", status |-> "raised"]
                  ELSE [op |-> "upsert_relation", status |-> "ok", relation |-> rel_type]
        /\ graph' = RelationRouteGraph(graph, payload)
        /\ UNCHANGED <<now, store, index, db, nextUid, nextDoc, nUpdates, written, inflight,
                       chroma>>

\* ---------------------------------- AssociativeMemoryWrapper.process_text
\* The loop "for entity in extracted['entities']".
RECURSIVE CreateEntities(_, _, _)
CreateEntities(g, entities, agent_id) ==
    IF entities = <<>> THEN g
    ELSE CreateEntities(UpsertEntity(g, Head(entities), {},
                                     [agent_id |-> agent_id,
                                      created_by |-> "associative_wrapper",
                                      source_text |-> "text"]),
                        Tail(entities), agent_id)

\* One pass of the loop "for rel in extracted['relationships']": both entities
\* are upserted, then upsert_relation validates the type; its ValueError is
\* caught and recorded.
CreateRelationship(g, rel, agent_id) ==
    LET g2       == UpsertEntity(UpsertEntity(g, rel.source, {}, <<>>), rel.target, {}, <<>>)
        rel_type == NormalizeRelation(rel.relation)
    IN  IF RelTypeMatches(rel_type)
        THEN MergeRelation(g2, rel.source, rel_type, rel.target, [agent_id |-> agent_id])
        ELSE g2
RECURSIVE CreateRelationships(_, _, _)
CreateRelationships(g, rels, agent_id) ==
    IF rels = <<>> THEN g
    ELSE CreateRelationships(CreateRelationship(g, Head(rels), agent_id), Tail(rels), agent_id)

\* The graph process_text leaves for one extraction.
ProcessedGraph(g, extracted, agent_id) ==
    CreateRelationships(CreateEntities(g, extracted.entities, agent_id),
                        extracted.relationships, agent_id)
ValidRelationships(rels) ==
    SelectSeq(rels, LAMBDA rel : RelTypeMatches(NormalizeRelation(rel.relation)))

\* What the extractor may return for a text: entities and relationships.
Extractions ==
    {[entities |-> es, relationships |-> rs] :
        es \in {<<>>, <<"e1">>},
        rs \in {<<>>} \cup {<<[source |-> "e1", relation |-> r, target |-> "e2"]>> :
                               r \in RelationInputs}}

\* process_text: the extractor's output is stored; errors are collected, not raised.
process_text(extracted, agent_id) ==
    /\ graph' = ProcessedGraph(graph, extracted, agent_id)
    /\ ret' = [op |-> "process_text", status |-> "success",
               entity_count |-> Len(extracted.entities),
               relationship_count |-> Len(ValidRelationships(extracted.relationships)),
               errors |-> Len(extracted.relationships)
                              - Len(ValidRelationships(extracted.relationships))]
    /\ UNCHANGED <<now, store, index, db, nextUid, nextDoc, nUpdates, written, inflight,
                   chroma>>

\* -------------------------------------------------- ChromaSemanticStore
\* A text is a sequence of tokens.  json.dumps(memory, sort_keys=True) lists
\* each key followed by its value, in key order; NoText stands for None and "",
\* which every test on this path treats alike.
NoText == <<>>
SortedKeys == <<"c", "k", "n", "old", "text">>
RECURSIVE DumpKeys(_, _)
DumpKeys(memory, keys) ==
    IF keys = <<>> THEN <<>>
    ELSE (IF Head(keys) \in DOMAIN memory THEN <<Head(keys), memory[Head(keys)]>> ELSE <<>>)
             \o DumpKeys(memory, Tail(keys))
JsonDumps(memory) == DumpKeys(memory, SortedKeys)
\* json.loads of a dumped text
JsonLoads(text) ==
    [key \in {text[2 * i - 1] : i \in 1..(Len(text) \div 2)} |->
        text[2 * (CHOOSE i \in 1..(Len(text) \div 2) : text[2 * i - 1] = key)]]

\* _norm_text(primary, fallback): the fallback replaces an empty primary and
\* the placeholder "string".
NormText(primary, fallback) ==
    IF primary = NoText \/ primary = <<"string">> THEN fallback ELSE primary

\* col.get(where={"message_id": message_id})
ChromaGet(col, message_id) ==
    SelectSeq(col, LAMBDA e : Get(e.metadata, "message_id", NoneStr) = message_id)
\* col.delete(ids=[id])
ChromaDelete(col, id_) == SelectSeq(col, LAMBDA e : e.id # id_)

\* ChromaSemanticStore.update: the old entry is deleted, then the new text is
\* embedded and added; any exception is caught and reported as False.
SemanticStoreUpdate(col, message_id, text, normalized_text, new_id, embed_ok) ==
    LET results == ChromaGet(col, message_id)
    IN  IF results = <<>> THEN [col |-> col, success |-> FALSE]
        ELSE LET deleted == ChromaDelete(col, results[1].id)
             IN  IF ~embed_ok THEN [col |-> deleted, success |-> FALSE]
                 ELSE [col |-> Append(deleted,
                                  [id |-> new_id, document |-> text,
                                   metadata |-> [normalized_text |->
                                                     NormText(normalized_text, text),
                                                 message_id |-> message_id]]),
                       success |-> TRUE]

\* What the wrapper does with a semantic memory's text: the entities and
\* relationships it stores, and the text of the exception process_text raises
\* after storing them (NoneStr when it returns).
SemanticExtractions ==
    {[entities |-> es, relationships |-> <<>>, error |-> e] :
        es \in {<<>>, <<"e1">>}, e \in {NoneStr, "", "boom"}}
Raises(extracted) == extracted.error # NoneStr

\* add_long_term's "except Exception" around process_text: a raise is always
\* reported as an error with no entities and no relationships.
AssociativeResultAsReturned(extracted) ==
    [status |-> "success", entity_count |-> Len(extracted.entities),
     relationship_count |-> Len(ValidRelationships(extracted.relationships))]
AssociativeResult(extracted) ==
    IF Raises(extracted)
    THEN [status |-> "error", error |-> extracted.error,
          entity_count |-> 0, relationship_count |-> 0]
    ELSE [status |-> "success", error |-> NoneStr,
          entity_count |-> Len(extracted.entities),
          relationship_count |-> Len(ValidRelationships(extracted.relationships))]

\* response["associative"]; the error text is added when it is truthy.
AssociativeSection(associative_result) ==
    LET section == [status |-> associative_result.status,
                    entities_created |-> associative_result.entity_count,
                    relationships_created |-> associative_result.relationship_count]
    IN  IF Truthy(Get(associative_result, "error", NoneStr))
        THEN section @@ [error |-> associative_result.error]
        ELSE section

\* POST /long-term/semantic -> MemoryService.add_long_term, semantic branch:
\* ChromaSemanticStore.add embeds and stores the dumped memory, then the
\* associative wrapper processes the text inside a try block.  A failing
\* embedding call raises out of the handler before anything is stored.
add_semantic(m, embed_ok, extracted) ==
    LET message_id    == generate_message_id(nextUid)
        text_to_embed == JsonDumps(m.memory)
        normalized    == IF m.normalized_text # NoText THEN m.normalized_text
                         ELSE text_to_embed
    IN  /\ nextUid' = nextUid + 1
        /\ IF ~embed_ok
           THEN /\ ret' = [op |-> "add_semantic_raised", message_id |-> message_id]
                /\ UNCHANGED <<chroma, graph, nextDoc>>
           ELSE /\ chroma' = [chroma EXCEPT ![Collection(m.agent_id)] =
                      Append(@, [id |-> nextDoc, document |-> text_to_embed,
                                 metadata |-> [normalized_text |->
                                                   NormText(normalized, text_to_embed),
                                               message_id |-> message_id]])]
                /\ nextDoc' = nextDoc + 1
                /\ graph' = ProcessedGraph(graph, extracted, m.agent_id)
                /\ ret' = [op |-> "add_semantic",
                           val |-> [message_id |-> message_id, agent_id |-> m.agent_id,
                                    memory_type |-> "semantic",
                                    created_at |-> Strftime(now),
                                    storage |-> "chromadb_only",
                                    associative |->
                                        AssociativeSection(AssociativeResult(extracted))]]
        /\ UNCHANGED <<now, store, index, db, nUpdates, written, inflight>>

\* PATCH /long-term/semantic -> MemoryService.update_long_term, semantic
\* branch: the stored document is loaded, merged with memory_updates, stripped
\* of remove_keys, dumped, and handed to ChromaSemanticStore.update.
update_semantic(update, embed_ok) ==
    LET col     == chroma[Collection(update.agent_id)]
        results == ChromaGet(col, update.message_id)
    IN  /\ IF results = <<>>
           THEN /\ ret' = [op |-> "update_semantic", val |-> <<>>]
                /\ UNCHANGED <<chroma, nextDoc>>
           ELSE LET existing_memory == JsonLoads(results[1].document)
                    updated_text == JsonDumps(ApplyMemoryUpdates(existing_memory,
                                        update.memory_updates, update.remove_keys))
                    normalized == IF update.normalized_text # NoText
                                  THEN update.normalized_text ELSE updated_text
                    r == SemanticStoreUpdate(col, update.message_id, updated_text,
                                             normalized, nextDoc, embed_ok)
                    after == ChromaGet(r.col, update.message_id)
                IN  /\ chroma' = [chroma EXCEPT ![Collection(update.agent_id)] = r.col]
                    /\ nextDoc' = IF r.success THEN nextDoc + 1 ELSE nextDoc
                    /\ ret' = [op |-> "update_semantic",
                               val |-> IF ~r.success \/ after = <<>> THEN <<>>
                                       ELSE <<[agent_id |-> update.agent_id,
                                               message_id |-> update.message_id,
                                               memory_type |-> "semantic",
                                               memory |-> JsonLoads(after[1].document),
                                               created_at |->
                                                   Get(after[1].metadata, "created_at", NoneInt),
                                               updated_at |->
                                                   Get(after[1].metadata, "updated_at", NoneInt),
                                               normalized_text |->
                                                   after[1].metadata.normalized_text,
                                               storage |-> "chromadb_only"]>>]
        /\ nUpdates' = nUpdates + 1
        /\ UNCHANGED <<now, store, index, db, nextUid, written, inflight, graph>>

\* DELETE /long-term/semantic -> MemoryService.delete_long_term, semantic
\* branch: ChromaSemanticStore.delete_by_message_id deletes every entry the
\* where-clause returns; delete_all drops and recreates the collection.
delete_semantic(agent_id, message_id) ==
    LET col     == chroma[Collection(agent_id)]
        results == ChromaGet(col, message_id)
    IN  /\ IF Truthy(message_id)
           THEN /\ chroma' = [chroma EXCEPT ![Collection(agent_id)] =
                                 SelectSeq(@, LAMBDA e : \A i \in 1..Len(results) :
                                                             e.id # results[i].id)]
                /\ ret' = [op |-> "delete_semantic",
                           status |-> IF results = <<>> THEN "not_found" ELSE "deleted",
                           agent_id |-> agent_id, message_id |-> message_id,
                           deleted_count |-> IF results = <<>> THEN 0 ELSE 1]
           ELSE /\ chroma' = [chroma EXCEPT ![Collection(agent_id)] = <<>>]
                /\ ret' = [op |-> "delete_semantic", status |-> "deleted_all",
                           agent_id |-> agent_id, deleted_count |-> Len(col)]
        /\ UNCHANGED <<now, store, index, db, nextUid, nextDoc, nUpdates, written, inflight,
                       graph>>

\* The budgets of a run: at most n records created, at most n updates that find
\* their record.
RecordsBelow(n) == nextUid <= n
UpdatesBelow(n, mem_type, update) ==
    ScanForMessageId(mem_type, update.agent_id, update.message_id) # <<>> => nUpdates < n

\* The short-term tier on its own: the Redis store behind the /short-term routes.
NextShortTerm ==
    \/ \E t \in ShortTermType : \E req \in ShortTermInputs(t) :
          RecordsBelow(MaxRecords) /\ add_short_term(t, req)
    \/ \E t \in ShortTermType, a \in Agents :
          \E f \in GetFilters : get_short_term(t, a, f[1], f[2], f[3])
    \/ \E t \in ShortTermType :
          \E u \in UpdateInputs({ReplaceAndRemove, SetAndRemoveSameKey, AddKeyAndFields}) :
             UpdatesBelow(MaxUpdates, t, u) /\ update_short_term(t, u)
    \/ \E t \in ShortTermType, a \in Agents :
          \E mid \in {NoneStr, "m1"} : delete_short_term(t, a, mid)
    \/ Tick

SpecShortTerm == Init /\ [][NextShortTerm]_vars

\* Promotion: working memory written, updated and expiring in Redis, and
\* persisted to MongoDB.
NextPromotion ==
    \/ \E req \in WorkingInputs : RecordsBelow(MaxRecords) /\ add_short_term("working", req)
    \/ \E u \in UpdateInputs({AddKeyAndFields}) :
          UpdatesBelow(MaxUpdates, "working", u) /\ update_short_term("working", u)
    \/ \E a \in Agents, w \in {"", "w1"} : persist_working_memory(a, w)
    \/ Tick

SpecPromotion == Init /\ [][NextPromotion]_vars

\* Number of updates that may find their record in a run of repeated updates.
MaxRepeatedUpdates == 2

\* Repeated updates of short-term records.
NextUpdate ==
    \/ \E t \in ShortTermType : \E req \in ShortTermInputs(t) :
          RecordsBelow(MaxRecords) /\ add_short_term(t, req)
    \/ \E t \in ShortTermType :
          \E u \in UpdateInputs({ReplaceAndRemove, SetAndRemoveSameKey,
                                 AddKeyAndFields, AddKeyAndEmptyFields}) :
             UpdatesBelow(MaxRepeatedUpdates, t, u) /\ update_short_term(t, u)
    \/ Tick

SpecUpdate == Init /\ [][NextUpdate]_vars

\* ------------------------------------------------ MemoryService.add_long_term
LongTermType == {"episodic", "procedural"}
EpisodicSubtype == {"conversational", "summaries", "observations"}

\* Request bodies of POST /long-term/episodic/<subtype> and /long-term/procedural,
\* as the routes hand them to the service (memory_type and subtype forced).
ConversationalMemory(a, mem) ==
    [agent_id |-> a, memory |-> mem, run_id |-> NoneStr, memory_type |-> "episodic",
     subtype |-> "conversational", conversation_id |-> "cv1"]
SummariesMemory(a, mem) ==
    [agent_id |-> a, memory |-> mem, run_id |-> NoneStr, memory_type |-> "episodic",
     subtype |-> "summaries"]
ObservationsMemory(a, mem) ==
    [agent_id |-> a, memory |-> mem, run_id |-> NoneStr, memory_type |-> "episodic",
     subtype |-> "observations", observation_id |-> "ob1"]
ProceduralMemory(a, mem) ==
    [agent_id |-> a, memory |-> mem, run_id |-> NoneStr, memory_type |-> "procedural",
     subtype |-> "tool_store", name |-> "n1", status |-> "active"]
EpisodicInputs ==
    {ConversationalMemory("a1", KV1), SummariesMemory("a1", STEP),
     ObservationsMemory("a1", STEP)}
LongTermInputs == EpisodicInputs \cup {ProceduralMemory("a1", KV1)}

\* The storage model add_long_term builds and LongTermStore.create inserts: the
\* fields the service passes, with the memory_type, subtype and created_at the
\* code reads back from it.
StorageDoc(m, message_id, doc_id, t) ==
    [id |-> doc_id, message_id |-> message_id, created_at |-> t] @@ m

\* POST /long-term/episodic/*, /long-term/procedural -> MemoryService.add_long_term
\* -> LongTermStore.create
add_long_term(m) ==
    LET message_id == generate_message_id(nextUid)
    IN  /\ db' = [db EXCEPT ![COLS[m.memory_type]] =
                     Append(@, StorageDoc(m, message_id, nextDoc, now))]
        /\ nextUid' = nextUid + 1
        /\ nextDoc' = nextDoc + 1
        /\ ret' = [op |-> "add_long_term",
                   val |-> [message_id |-> message_id, agent_id |-> m.agent_id,
                            memory_type |-> m.memory_type, subtype |-> m.subtype,
                            created_at |-> Strftime(now), storage |-> "mongodb"]]
        /\ UNCHANGED <<now, store, index, nUpdates, written, inflight, chroma, graph>>

\* ---------------------------------------------------- LongTermStore.update
\* LongTermMemoryUpdate: the generic update the service accepts; memory_type is
\* any LongTermType.  f holds the optional fields, None unless given.
NoLongTermFields ==
    [normalized_text |-> NoneStr, subtype |-> NoneStr, conversation_id |-> NoneStr,
     name |-> NoneStr, status |-> NoneStr]
RenameFields == [NoLongTermFields EXCEPT !.name = "n2", !.status = "deprecated"]
LongTermMemoryUpdate(a, mid, t, u, r, f) ==
    [agent_id |-> a, message_id |-> mid, memory_type |-> t, memory_updates |-> u,
     remove_keys |-> r, normalized_text |-> f.normalized_text, subtype |-> f.subtype,
     conversation_id |-> f.conversation_id, name |-> f.name, status |-> f.status]
\* PATCH bodies whose memory_updates and remove_keys have no key in common.
LongTermUpdateInputs ==
    {LongTermMemoryUpdate("a1", mid, t, ("k" :> "v2"), <<"old">>, f) :
        mid \in {MsgPool[1], MsgPool[2]}, t \in LongTermType,
        f \in {NoLongTermFields, RenameFields}}

\* A faulty find_one, whose query leaves out the message_id.
FindOneOfAgent(docs, agent_id, message_id) ==
    LET hits == {i \in 1..Len(docs) : docs[i].agent_id = agent_id}
    IN  IF hits = {} THEN 0 ELSE CHOOSE i \in hits : \A j \in hits : i <= j

\* find_one(query): the position of the first document with this agent_id and
\* message_id, 0 when there is none.
FindOne(docs, agent_id, message_id) ==
    LET hits == {i \in 1..Len(docs) :
                    docs[i].agent_id = agent_id /\ docs[i].message_id = message_id}
    IN  IF hits = {} THEN 0 ELSE CHOOSE i \in hits : \A j \in hits : i <= j

\* A faulty update_ops that stamps created_at as well.
UpdateOpsStampingCreatedAt(update, existing, t) ==
    ("version" :> (Get(existing, "version", 1) + 1)) @@ ("updated_at" :> t)
        @@ ("created_at" :> t + 1)

\* "if update.config_updates: update_ops[f'config.{key}'] = value": the dotted
\* paths config.<key>, kept together under "config.*"; none for None and {}.
ConfigPaths(update) ==
    IF Get(update, "config_updates", EmptyDict) # EmptyDict
    THEN ("config.*" :> update.config_updates) ELSE <<>>

\* update_ops of LongTermStore.update, less the memory.* paths: the fields given,
\* then version and updated_at.  existing is the document find_one returned.
UpdateOps(update, existing, t) ==
    LET given == {f \in DOMAIN NoLongTermFields : update[f] # NoneStr}
    IN  [f \in given |-> update[f]] @@ ConfigPaths(update)
        @@ ("version" :> (Get(existing, "version", 1) + 1)) @@ ("updated_at" :> t)

\* MongoDB refuses an update whose $set and $unset name the same path
\* ("Updating the path 'memory.k' would create a conflict at 'memory.k'"):
\* update_one raises and the document is not written.
ConflictingPaths(memory_updates, remove_keys) ==
    \E i \in 1..Len(remove_keys) : remove_keys[i] \in DOMAIN memory_updates

\* update_one(query, {$set, $unset}) on one document: $set of memory.<key> and of
\* update_ops, $unset of memory.<key>.
MongoUpdateOne(doc, memory_updates, remove_keys, update_ops) ==
    LET fields == Restrict(update_ops, DOMAIN update_ops \ {"config.*"})
        config == IF "config.*" \in DOMAIN update_ops
                  THEN ("config" :> (update_ops["config.*"] @@ Get(doc, "config", EmptyDict)))
                  ELSE <<>>
    IN  fields @@ config
            @@ [doc EXCEPT !.memory = ApplyMemoryUpdates(@, memory_updates, remove_keys)]

\* result["storage"] = "mongodb"
WithStorage(doc, storage) == ("storage" :> storage) @@ doc

\* LongTermStore.update up to its first await: find_one.  None when nothing
\* matches; otherwise the handler is suspended holding the document it read.
update_find_one(c, update) ==
    LET col == COLS[update.memory_type]
        i   == FindOne(db[col], update.agent_id, update.message_id)
    IN  /\ inflight[c] = Idle
        /\ IF i = 0
           THEN /\ ret' = [op |-> "update_long_term", val |-> <<>>]
                /\ UNCHANGED <<inflight, nUpdates>>
           ELSE /\ inflight' = [inflight EXCEPT ![c] =
                       [op |-> "update", update |-> update, existing |-> db[col][i]]]
                /\ nUpdates' = nUpdates + 1
                /\ UNCHANGED ret
        /\ UNCHANGED <<now, store, index, db, nextUid, nextDoc, written, chroma, graph>>

\* LongTermStore.update resumed: update_one with the version computed from the
\* document read before, then find_one again; MemoryService.update_long_term
\* adds "storage" to what it returns.
update_update_one(c) ==
    LET update == inflight[c].update
        col    == COLS[update.memory_type]
        i      == FindOne(db[col], update.agent_id, update.message_id)
        doc    == MongoUpdateOne(db[col][i], update.memory_updates, update.remove_keys,
                                 UpdateOps(update, inflight[c].existing, now))
    IN  /\ inflight[c].op = "update"
        /\ inflight' = [inflight EXCEPT ![c] = Idle]
        /\ IF i = 0
           THEN /\ ret' = [op |-> "update_long_term", val |-> <<>>]
                /\ UNCHANGED db
           ELSE IF ConflictingPaths(update.memory_updates, update.remove_keys)
           THEN /\ ret' = [op |-> "update_long_term_raised", error |-> "WriteError"]
                /\ UNCHANGED db
           ELSE /\ db' = [db EXCEPT ![col][i] = doc]
                /\ ret' = [op |-> "update_long_term", val |-> <<WithStorage(doc, "mongodb")>>]
        /\ UNCHANGED <<now, store, index, nextUid, nextDoc, nUpdates, written, chroma, graph>>

\* MemoryService.update_long_term -> LongTermStore.update, run to completion with no
\* other request in between.
update_long_term(update) ==
    LET col == COLS[update.memory_type]
        i   == FindOne(db[col], update.agent_id, update.message_id)
        doc == MongoUpdateOne(db[col][i], update.memory_updates, update.remove_keys,
                              UpdateOps(update, db[col][i], now))
    IN  /\ IF i = 0
           THEN /\ ret' = [op |-> "update_long_term", val |-> <<>>]
                /\ UNCHANGED <<db, nUpdates>>
           ELSE IF ConflictingPaths(update.memory_updates, update.remove_keys)
           THEN /\ ret' = [op |-> "update_long_term_raised", error |-> "WriteError"]
                /\ nUpdates' = nUpdates + 1
                /\ UNCHANGED db
           ELSE /\ db' = [db EXCEPT ![col][i] = doc]
                /\ nUpdates' = nUpdates + 1
                /\ ret' = [op |-> "update_long_term", val |-> <<WithStorage(doc, "mongodb")>>]
        /\ UNCHANGED <<now, store, index, nextUid, nextDoc, written, inflight, chroma, graph>>

\* ------------------------------- LongTermStore.delete_by_message_id / delete_all
\* docs without its i-th document
RemoveAt(docs, i) == SubSeq(docs, 1, i - 1) \o SubSeq(docs, i + 1, Len(docs))

\* delete_many({"agent_id": agent_id})
DeleteMany(docs, agent_id) == SelectSeq(docs, LAMBDA d : d.agent_id # agent_id)

\* MemoryService.delete_long_term for the MongoDB types: delete_by_message_id for
\* a truthy message_id, delete_all otherwise.
delete_long_term(memory_type, agent_id, message_id) ==
    LET col == COLS[memory_type]
        i   == FindOne(db[col], agent_id, message_id)
    IN  /\ IF Truthy(message_id)
           THEN IF i = 0
                THEN /\ ret' = [op |-> "delete_long_term", status |-> "not_found",
                                memory_type |-> memory_type, message_id |-> message_id,
                                deleted_count |-> 0]
                     /\ UNCHANGED db
                ELSE /\ db' = [db EXCEPT ![col] = RemoveAt(@, i)]
                     /\ ret' = [op |-> "delete_long_term", status |-> "deleted",
                                memory_type |-> memory_type, message_id |-> message_id,
                                deleted_count |-> 1]
           ELSE /\ db' = [db EXCEPT ![col] = DeleteMany(@, agent_id)]
                /\ ret' = [op |-> "delete_long_term", status |-> "deleted_all",
                           memory_type |-> memory_type,
                           deleted_count |-> Len(db[col]) - Len(DeleteMany(db[col], agent_id))]
        /\ UNCHANGED <<now, store, index, nextUid, nextDoc, nUpdates, written, inflight, chroma, graph>>

\* DELETE /long-term/episodic/conversational, /summaries, /observations and
\* /long-term/procedural.
delete_episodic_conversational(agent_id, message_id) ==
    delete_long_term("episodic", agent_id, message_id)
delete_episodic_summaries(agent_id, message_id) ==
    delete_long_term("episodic", agent_id, message_id)
delete_episodic_observations(agent_id, message_id) ==
    delete_long_term("episodic", agent_id, message_id)
delete_procedural(agent_id, message_id) ==
    delete_long_term("procedural", agent_id, message_id)

\* ------------------------------------- LongTermStore.update_working_persisted
\* WorkingMemoryPersistedUpdate: f holds the optional fields, None unless given
\* (stages and tags are not given in these bodies).
NoPersistedFields ==
    [workflow_id |-> NoneStr, current_stage |-> NoneStr,
     context_log_summary |-> NoneStr, user_query |-> NoneStr]
WorkingMemoryPersistedUpdate(a, mid, u, r, f) ==
    [agent_id |-> a, message_id |-> mid, memory_type |-> "working_persisted",
     memory_updates |-> u, remove_keys |-> r, workflow_id |-> f.workflow_id,
     current_stage |-> f.current_stage, context_log_summary |-> f.context_log_summary,
     user_query |-> f.user_query]
PersistedUpdateInputs ==
    {WorkingMemoryPersistedUpdate("a1", MsgPool[1], ("k" :> "v2"), <<"old">>, f) :
        f \in {NoPersistedFields, [NoPersistedFields EXCEPT !.current_stage = "s3"]}}

\* update_ops of update_working_persisted, less the memory.* paths.
PersistedUpdateOps(update, existing, t) ==
    LET given == {f \in DOMAIN NoPersistedFields : update[f] # NoneStr}
    IN  [f \in given |-> update[f]]
        @@ ("version" :> (Get(existing, "version", 1) + 1)) @@ ("updated_at" :> t)

\* update_working_persisted up to its first await: find_one.
update_working_persisted_find_one(c, update) ==
    LET col == COLS["working_persisted"]
        i   == FindOne(db[col], update.agent_id, update.message_id)
    IN  /\ inflight[c] = Idle
        /\ IF i = 0
           THEN /\ ret' = [op |-> "update_working_persisted", val |-> <<>>]
                /\ UNCHANGED <<inflight, nUpdates>>
           ELSE /\ inflight' = [inflight EXCEPT ![c] =
                       [op |-> "update_working_persisted", update |-> update,
                        existing |-> db[col][i]]]
                /\ nUpdates' = nUpdates + 1
                /\ UNCHANGED ret
        /\ UNCHANGED <<now, store, index, db, nextUid, nextDoc, written, chroma, graph>>

\* update_working_persisted resumed: update_one, find_one;
\* MemoryService.update_working_persisted adds "storage".
update_working_persisted_update_one(c) ==
    LET update == inflight[c].update
        col    == COLS["working_persisted"]
        i      == FindOne(db[col], update.agent_id, update.message_id)
        doc    == MongoUpdateOne(db[col][i], update.memory_updates, update.remove_keys,
                                 PersistedUpdateOps(update, inflight[c].existing, now))
    IN  /\ inflight[c].op = "update_working_persisted"
        /\ inflight' = [inflight EXCEPT ![c] = Idle]
        /\ IF i = 0
           THEN /\ ret' = [op |-> "update_working_persisted", val |-> <<>>]
                /\ UNCHANGED db
           ELSE IF ConflictingPaths(update.memory_updates, update.remove_keys)
           THEN /\ ret' = [op |-> "update_working_persisted_raised", error |-> "WriteError"]
                /\ UNCHANGED db
           ELSE /\ db' = [db EXCEPT ![col][i] = doc]
                /\ ret' = [op |-> "update_working_persisted",
                           val |-> <<WithStorage(doc, "mongodb_working_persisted")>>]
        /\ UNCHANGED <<now, store, index, nextUid, nextDoc, nUpdates, written, chroma, graph>>

\* MemoryService.update_working_persisted -> LongTermStore.update_working_persisted,
\* run to completion with no other request in between.
update_working_persisted(update) ==
    LET col == COLS["working_persisted"]
        i   == FindOne(db[col], update.agent_id, update.message_id)
        doc == MongoUpdateOne(db[col][i], update.memory_updates, update.remove_keys,
                              PersistedUpdateOps(update, db[col][i], now))
    IN  /\ IF i = 0
           THEN /\ ret' = [op |-> "update_working_persisted", val |-> <<>>]
                /\ UNCHANGED <<db, nUpdates>>
           ELSE IF ConflictingPaths(update.memory_updates, update.remove_keys)
           THEN /\ ret' = [op |-> "update_working_persisted_raised", error |-> "WriteError"]
                /\ nUpdates' = nUpdates + 1
                /\ UNCHANGED db
           ELSE /\ db' = [db EXCEPT ![col][i] = doc]
                /\ nUpdates' = nUpdates + 1
                /\ ret' = [op |-> "update_working_persisted",
                           val |-> <<WithStorage(doc, "mongodb_working_persisted")>>]
        /\ UNCHANGED <<now, store, index, nextUid, nextDoc, written, inflight, chroma, graph>>

\* MemoryService.add_working_persisted -> LongTermStore.create_working_persisted,
\* for a model that carries no message_id.
add_working_persisted(wm) ==
    LET m == WorkingMemoryPersisted([wm EXCEPT !.message_id = generate_message_id(nextUid)],
                                    now)
    IN  /\ db' = [db EXCEPT ![COLS["working_persisted"]] =
                     Append(@, WorkingPersistedDoc(m, nextDoc))]
        /\ nextUid' = nextUid + 1
        /\ nextDoc' = nextDoc + 1
        /\ ret' = [op |-> "add_working_persisted",
                   val |-> [id |-> nextDoc, message_id |-> m.message_id,
                            agent_id |-> m.agent_id, memory_type |-> "working_persisted",
                            created_at |-> Strftime(m.created_at),
                            persisted_at |-> Strftime(m.persisted_at),
                            storage |-> "mongodb_working_persisted"]]
        /\ UNCHANGED <<now, store, index, nUpdates, written, inflight, chroma, graph>>

\* The response of MemoryService.delete_working_persisted.
DeletePersistedResult(docs, agent_id, message_id) ==
    IF Truthy(message_id)
    THEN [op |-> "delete_working_persisted",
          status |-> IF FindOne(docs, agent_id, message_id) = 0
                     THEN "not_found" ELSE "deleted",
          message_id |-> message_id,
          deleted_count |-> IF FindOne(docs, agent_id, message_id) = 0 THEN 0 ELSE 1]
    ELSE [op |-> "delete_working_persisted", status |-> "deleted_all",
          deleted_count |-> Len(docs) - Len(DeleteMany(docs, agent_id))]
\* working_persisted after delete_one / delete_many.
DeletePersistedDocs(docs, agent_id, message_id) ==
    IF Truthy(message_id)
    THEN IF FindOne(docs, agent_id, message_id) = 0 THEN docs
         ELSE RemoveAt(docs, FindOne(docs, agent_id, message_id))
    ELSE DeleteMany(docs, agent_id)

\* find(query) of get_many / get_working_persisted, before the cursor's sort:
\* agent_id always, each other field only when its filter is truthy.
FindQuery(docs, agent_id, workflow_id, message_id, run_id) ==
    SelectSeq(docs, LAMBDA d :
        /\ d.agent_id = agent_id
        /\ Truthy(workflow_id) => Get(d, "workflow_id", NoneStr) = workflow_id
        /\ Truthy(message_id) => Get(d, "message_id", NoneStr) = message_id
        /\ Truthy(run_id) => Get(d, "run_id", NoneStr) = run_id)

\* A faulty delete that also drops the agent's working records from Redis.
delete_working_persisted_cascading(agent_id, message_id) ==
    /\ db' = [db EXCEPT ![COLS["working_persisted"]] =
                 DeletePersistedDocs(@, agent_id, message_id)]
    /\ ret' = DeletePersistedResult(db[COLS["working_persisted"]], agent_id, message_id)
    /\ store' = Restrict(store, DOMAIN store \ DeleteAllKeys("working", agent_id))
    /\ written' = Restrict(written, DOMAIN written \ DeleteAllKeys("working", agent_id))
    /\ index' = [index EXCEPT ![Idx("working", agent_id)] = <<>>]
    /\ UNCHANGED <<now, nextUid, nextDoc, nUpdates, inflight, chroma, graph>>

\* DELETE /long-term/working-persisted -> MemoryService.delete_working_persisted:
\* delete_working_persisted_by_message_id for a truthy message_id,
\* delete_all_working_persisted otherwise.
delete_working_persisted(agent_id, message_id) ==
    /\ db' = [db EXCEPT ![COLS["working_persisted"]] =
                 DeletePersistedDocs(@, agent_id, message_id)]
    /\ ret' = DeletePersistedResult(db[COLS["working_persisted"]], agent_id, message_id)
    /\ UNCHANGED <<now, store, index, nextUid, nextDoc, nUpdates, written, inflight, chroma, graph>>

\* A WorkingMemoryPersisted as a caller builds it: the required fields, no
\* message_id.
PersistedInputs ==
    {[agent_id |-> "a1", memory |-> KV1, message_id |-> "", run_id |-> "",
      workflow_id |-> NoneStr, stages |-> <<>>, current_stage |-> NoneStr,
      context_log_summary |-> NoneStr, user_query |-> NoneStr]}

\* Number of long-term updates that may find their document in a run with
\* suspended requests.
MaxLongTermUpdates == 2

\* The episodic and procedural partitions, one request at a time: the routes'
\* requests and the generic update the service accepts.
NextEpisodic ==
    \/ \E m \in LongTermInputs : nextDoc <= MaxDocs /\ add_long_term(m)
    \/ \E u \in LongTermUpdateInputs : nUpdates < MaxUpdates /\ update_long_term(u)
    \/ \E mid \in {NoneStr, MsgPool[1]} : delete_episodic_conversational("a1", mid)
    \/ \E mid \in {NoneStr, MsgPool[1]} : delete_episodic_summaries("a1", mid)
    \/ \E mid \in {NoneStr, MsgPool[1]} : delete_episodic_observations("a1", mid)
    \/ \E mid \in {NoneStr, MsgPool[1]} : delete_procedural("a1", mid)

SpecEpisodic == Init /\ [][NextEpisodic]_vars

\* Concurrent updates of the long-term tier: each update is suspended between
\* its find_one and its update_one, where other requests run.
NextConcurrentUpdate ==
    \/ RecordsBelow(MaxRecords) /\ add_long_term(ProceduralMemory("a1", KV1))
    \/ \E wm \in PersistedInputs : RecordsBelow(MaxRecords) /\ add_working_persisted(wm)
    \/ \E c \in Requests, u \in LongTermUpdateInputs :
          nUpdates < MaxLongTermUpdates /\ update_find_one(c, u)
    \/ \E c \in Requests : update_update_one(c)
    \/ \E c \in Requests, u \in PersistedUpdateInputs :
          nUpdates < MaxLongTermUpdates /\ update_working_persisted_find_one(c, u)
    \/ \E c \in Requests : update_working_persisted_update_one(c)
    \/ delete_procedural("a1", MsgPool[1])
    \/ Tick

SpecConcurrentUpdate == Init /\ [][NextConcurrentUpdate]_vars

\* Updates and deletes by message id in both tiers, one request at a time.
TargetIds == {MsgPool[1], MsgPool[2]}
NextNotFound ==
    \/ \E t \in ShortTermType : \E req \in ShortTermInputs(t) :
          RecordsBelow(MaxRecords) /\ add_short_term(t, req)
    \/ \E m \in {SummariesMemory("a1", STEP), ProceduralMemory("a1", KV1)} :
          RecordsBelow(MaxRecords) /\ add_long_term(m)
    \/ \E t \in ShortTermType : \E u \in UpdateInputs({ReplaceAndRemove}) :
          UpdatesBelow(MaxUpdates, t, u) /\ update_short_term(t, u)
    \/ \E t \in ShortTermType, a \in Agents, mid \in TargetIds :
          delete_short_term(t, a, mid)
    \/ \E u \in LongTermUpdateInputs : nUpdates < MaxUpdates /\ update_long_term(u)
    \/ \E t \in LongTermType, a \in Agents, mid \in TargetIds :
          delete_long_term(t, a, mid)
    \/ Tick

SpecNotFound == Init /\ [][NextNotFound]_vars

\* Deletes by message id interleaved with updates, reads and expiry.
NextConcurrentDelete ==
    \/ \E req \in CacheInputs : RecordsBelow(MaxRecords) /\ add_short_term("cache", req)
    \/ \E c \in Requests, a \in Agents, mid \in TargetIds :
          delete_by_message_id_scan(c, "cache", a, mid)
    \/ \E c \in Requests : delete_by_message_id_execute(c)
    \/ \E c \in Requests : \E u \in UpdateInputs({ReplaceAndRemove}) :
          UpdatesBelow(MaxUpdates, "cache", u) /\ update_scan(c, "cache", u)
    \/ \E c \in Requests : update_set(c)
    \/ \E a \in Agents : get_short_term("cache", a, NoneStr, NoneStr, NoneStr)
    \/ Tick

SpecConcurrentDelete == Init /\ [][NextConcurrentDelete]_vars

\* Promotion of batches of up to MaxBatch records, any create of which may raise.
MaxBatch == 2
NextPartialBatch ==
    \/ \E req \in {r \in WorkingInputs : r.agent_id = "a1"} :
          RecordsBelow(MaxBatch) /\ add_short_term("working", req)
    \/ \E w \in {"", "w1"} : persist_working_memory("a1", w)
    \/ \E w \in {"", "w1"}, k \in 1..MaxBatch : persist_working_memory_raises("a1", w, k)
    \/ Tick

SpecPartialBatch == Init /\ [][NextPartialBatch]_vars

\* The PATCH bodies of the TTL tier sent to the durable tier: the same
\* memory_updates, remove_keys and string fields.
PolicyKinds == {ReplaceAndRemove, SetAndRemoveSameKey, AddKeyAndFields, AddKeyAndEmptyFields}
PersistedBody(k) ==
    WorkingMemoryPersistedUpdate("a1", MsgPool[1], k.memory_updates, k.remove_keys,
                                 Restrict(k.f, DOMAIN NoPersistedFields))
\* status is a Literal, so "" reaches the store only in the free-text fields.
LongTermBody(k) ==
    LongTermMemoryUpdate("a1", MsgPool[1], "procedural", k.memory_updates, k.remove_keys,
                         [NoLongTermFields EXCEPT !.name = k.f.current_stage])
StagedPersistedInputs ==
    {[agent_id |-> "a1", memory |-> KV1, message_id |-> "", run_id |-> "",
      workflow_id |-> "w1", stages |-> SomeStages, current_stage |-> "s1",
      context_log_summary |-> "log", user_query |-> "q"]}

NextDurablePolicy ==
    \/ RecordsBelow(MaxRecords) /\ add_long_term(ProceduralMemory("a1", KV1))
    \/ \E wm \in StagedPersistedInputs : RecordsBelow(MaxRecords) /\ add_working_persisted(wm)
    \/ \E k \in PolicyKinds :
          nUpdates < MaxRepeatedUpdates /\ update_long_term(LongTermBody(k))
    \/ \E k \in PolicyKinds :
          nUpdates < MaxRepeatedUpdates /\ update_working_persisted(PersistedBody(k))
    \/ Tick

SpecDurablePolicy == Init /\ [][NextDurablePolicy]_vars

\* Working records promoted, then deleted or expired in either tier.
NextNoCascade ==
    \/ \E req \in WorkingInputs : RecordsBelow(MaxRecords) /\ add_short_term("working", req)
    \/ \E a \in Agents : persist_working_memory(a, "w1")
    \/ \E a \in Agents, mid \in {NoneStr, MsgPool[1]} : delete_short_term("working", a, mid)
    \/ \E a \in Agents, mid \in {NoneStr, MsgPool[1]} : delete_working_persisted(a, mid)
    \/ Tick

SpecNoCascade == Init /\ [][NextNoCascade]_vars

\* One record in either tier and the three updates, with bodies that name
\* payload keys after the record's fields.
IdentityKinds == {ReplaceAndRemove, IdentityNamedKeys}
NextIdentity ==
    \/ \E t \in ShortTermType : \E req \in ShortTermInputs(t) :
          RecordsBelow(MaxRecords) /\ add_short_term(t, req)
    \/ RecordsBelow(MaxRecords) /\ add_long_term(ProceduralMemory("a1", KV1))
    \/ \E wm \in StagedPersistedInputs : RecordsBelow(MaxRecords) /\ add_working_persisted(wm)
    \/ \E t \in ShortTermType : \E u \in UpdateInputs(IdentityKinds) :
          UpdatesBelow(MaxRepeatedUpdates, t, u) /\ update_short_term(t, u)
    \/ \E k \in IdentityKinds :
          nUpdates < MaxRepeatedUpdates /\ update_long_term(LongTermBody(k))
    \/ \E k \in IdentityKinds :
          nUpdates < MaxRepeatedUpdates /\ update_working_persisted(PersistedBody(k))
    \/ Tick

SpecIdentity == Init /\ [][NextIdentity]_vars

\* Records created, updated and read back, unfiltered.
NextUpdatedAt ==
    \/ \E t \in ShortTermType : \E req \in ShortTermInputs(t) :
          RecordsBelow(MaxRecords) /\ add_short_term(t, req)
    \/ \E t \in ShortTermType : \E u \in UpdateInputs({ReplaceAndRemove, AddKeyAndEmptyFields}) :
          UpdatesBelow(MaxRepeatedUpdates, t, u) /\ update_short_term(t, u)
    \/ \E t \in ShortTermType, a \in Agents :
          get_short_term(t, a, NoneStr, NoneStr, NoneStr)
    \/ Tick

SpecUpdatedAt == Init /\ [][NextUpdatedAt]_vars

\* The graph routes and the extraction wrapper.
EntityPayloads ==
    {[name |-> "e1", labels |-> labels, props |-> <<>>] : labels \in EntityLabels}
        \cup {[name |-> "e2", labels |-> {}, props |-> [kind |-> "tool"]]}
RelationPayloads ==
    {[source |-> "e1", relation |-> r, target |-> "e2", props |-> [w |-> "1"]] :
        r \in RelationInputs}
NextGraph ==
    \/ \E payload \in EntityPayloads :
          upsert_entity(payload.name, payload.labels, payload.props)
    \/ \E payload \in RelationPayloads : upsert_relation(payload)
    \/ \E x \in Extractions : process_text(x, "a1")

SpecGraph == Init /\ [][NextGraph]_vars

\* The semantic tier: adds and updates whose embedding call may fail.
SemanticInputs ==
    {[agent_id |-> a, memory |-> KV1, normalized_text |-> n] :
        a \in Agents, n \in {NoText, <<"norm">>}}
SemanticUpdates ==
    {[agent_id |-> a, message_id |-> mid, memory_updates |-> k.memory_updates,
      remove_keys |-> k.remove_keys, normalized_text |-> n] :
        a \in Agents, mid \in {MsgPool[i] : i \in 1..MaxRecords},
        k \in {ReplaceAndRemove, AddKeyAndFields}, n \in {NoText, <<"string">>}}
NextSemantic ==
    \/ \E m \in SemanticInputs, embed_ok \in BOOLEAN, x \in SemanticExtractions :
          RecordsBelow(MaxRecords) /\ add_semantic(m, embed_ok, x)
    \/ \E u \in SemanticUpdates, embed_ok \in BOOLEAN :
          nUpdates < MaxUpdates /\ update_semantic(u, embed_ok)
    \/ Tick

SpecSemantic == Init /\ [][NextSemantic]_vars

\* Filtered reads of the TTL tier over several records.
ReadFilters ==
    { <<NoneStr, NoneStr, NoneStr>>, <<"m1", NoneStr, NoneStr>>, <<NoneStr, "r1", NoneStr>>,
      <<NoneStr, "", NoneStr>>, <<NoneStr, NoneStr, "w1">>, <<"m2", "r1", "w2">> }
NextRead ==
    \/ \E t \in ShortTermType : \E req \in {r \in ShortTermInputs(t) : r.agent_id = "a1"} :
          RecordsBelow(MaxBatch) /\ add_short_term(t, req)
    \/ \E t \in ShortTermType, f \in ReadFilters : get_short_term(t, "a1", f[1], f[2], f[3])
    \/ Tick

SpecRead == Init /\ [][NextRead]_vars

\* Two requests updating cache records, suspended between read and write.
NextLostUpdate ==
    \/ \E req \in CacheInputs : RecordsBelow(MaxRecords) /\ add_short_term("cache", req)
    \/ \E c \in Requests : \E u \in UpdateInputs({ReplaceAndRemove, AddKeyAndFields}) :
          nUpdates < MaxRepeatedUpdates /\ update_scan(c, "cache", u)
    \/ \E c \in Requests : update_set(c)
    \/ \E a \in Agents : get_short_term("cache", a, NoneStr, NoneStr, NoneStr)
    \/ Tick

SpecLostUpdate == Init /\ [][NextLostUpdate]_vars

\* The procedural routes: a record with config, integration and steps, and
\* PATCH bodies that supply each group of fields.
ConfiguredProcedure ==
    [config |-> [c1 |-> "x", c2 |-> "y"], integration |-> [i1 |-> "x"],
     change_note |-> NoneStr, steps |-> <<>>] @@ ProceduralMemory("a1", KV1)
\* The optional fields of ProceduralMemoryUpdate that LongTermMemoryUpdate
\* carries besides subtype, name and status; an empty dict or list stands for None.
NoProceduralFields ==
    [config_updates |-> EmptyDict, integration_updates |-> EmptyDict,
     change_note |-> NoneStr, steps |-> <<>>]
ProceduralBodies ==
    { [f |-> [NoLongTermFields EXCEPT !.subtype = "agent_store", !.name = "n2",
                                      !.status = "deprecated"],
       p |-> [NoProceduralFields EXCEPT !.config_updates = [c1 |-> "z", c3 |-> "new"]]],
      [f |-> NoLongTermFields,
       p |-> [NoProceduralFields EXCEPT !.integration_updates = [i1 |-> "z"]]],
      [f |-> NoLongTermFields,
       p |-> [NoProceduralFields EXCEPT !.change_note = "note", !.steps = <<STEP>>]],
      [f |-> NoLongTermFields, p |-> NoProceduralFields] }
ProceduralUpdates ==
    {b.p @@ LongTermMemoryUpdate("a1", mid, "procedural", ("k" :> "v2"), <<"old">>, b.f) :
        mid \in {MsgPool[1], MsgPool[2]}, b \in ProceduralBodies}
NextProcedural ==
    \/ RecordsBelow(MaxRecords) /\ add_long_term(ConfiguredProcedure)
    \/ \E u \in ProceduralUpdates : nUpdates < MaxRepeatedUpdates /\ update_long_term(u)
    \/ delete_procedural("a1", MsgPool[1])
    \/ Tick

SpecProcedural == Init /\ [][NextProcedural]_vars

\* Deletes by message id in the durable tier, after promotions and creates.
NextExactDelete ==
    \/ \E req \in {r \in WorkingInputs : r.agent_id = "a1"} :
          RecordsBelow(MaxRecords) /\ add_short_term("working", req)
    \/ persist_working_memory("a1", "w1")
    \/ RecordsBelow(MaxRecords) /\ nextDoc <= MaxDocs
          /\ add_long_term(ProceduralMemory("a1", KV1))
    \/ \E mid \in TargetIds : delete_working_persisted("a1", mid)
    \/ \E mid \in TargetIds : delete_procedural("a1", mid)
    \/ Tick

SpecExactDelete == Init /\ [][NextExactDelete]_vars

\* The cache partition read, written, deleted and expiring, one request at a time.
NextPrune ==
    \/ \E req \in CacheInputs : RecordsBelow(MaxRecords) /\ add_short_term("cache", req)
    \/ \E a \in Agents, f \in GetFilters : get_short_term("cache", a, f[1], f[2], f[3])
    \/ \E u \in UpdateInputs({ReplaceAndRemove, SetAndRemoveSameKey}) :
          UpdatesBelow(MaxRepeatedUpdates, "cache", u) /\ update_short_term("cache", u)
    \/ \E a \in Agents, mid \in {NoneStr} \cup TargetIds : delete_short_term("cache", a, mid)
    \/ Tick

SpecPrune == Init /\ [][NextPrune]_vars

\* Every category of both tiers, two agents in each, two records at most.
SemanticAgents == {"a.b", "a-b"}
IsolationSemanticInputs ==
    {[agent_id |-> a, memory |-> KV1, normalized_text |-> NoText] : a \in SemanticAgents}
IsolationSemanticUpdates ==
    {[agent_id |-> a, message_id |-> mid, memory_updates |-> ReplaceAndRemove.memory_updates,
      remove_keys |-> ReplaceAndRemove.remove_keys, normalized_text |-> NoText] :
        a \in SemanticAgents, mid \in TargetIds}
IsolationLongTermInputs == {ProceduralMemory(a, KV1) : a \in Agents}
IsolationLongTermUpdates ==
    {LongTermMemoryUpdate(a, mid, "procedural", ("k" :> "v2"), <<"old">>, NoLongTermFields) :
        a \in Agents, mid \in TargetIds}
NoExtraction == [entities |-> <<>>, relationships |-> <<>>, error |-> NoneStr]
NextIsolation ==
    \/ \E req \in WorkingInputs : RecordsBelow(MaxBatch) /\ add_short_term("working", req)
    \/ \E u \in UpdateInputs({ReplaceAndRemove}) :
          UpdatesBelow(MaxUpdates, "working", u) /\ update_short_term("working", u)
    \/ \E a \in Agents : get_short_term("working", a, NoneStr, NoneStr, NoneStr)
    \/ \E a \in Agents, mid \in {NoneStr, MsgPool[1]} : delete_short_term("working", a, mid)
    \/ \E m \in IsolationLongTermInputs :
          RecordsBelow(MaxBatch) /\ nextDoc <= MaxDocs /\ add_long_term(m)
    \/ \E u \in IsolationLongTermUpdates : nUpdates < MaxUpdates /\ update_long_term(u)
    \/ \E a \in Agents, mid \in {NoneStr, MsgPool[1]} : delete_procedural(a, mid)
    \/ \E m \in IsolationSemanticInputs :
          RecordsBelow(MaxBatch) /\ nextDoc <= MaxDocs /\ add_semantic(m, TRUE, NoExtraction)
    \/ \E u \in IsolationSemanticUpdates : nUpdates < MaxUpdates /\ update_semantic(u, TRUE)
    \/ \E a \in SemanticAgents, mid \in {NoneStr, MsgPool[1]} : delete_semantic(a, mid)

SpecIsolation == Init /\ [][NextIsolation]_vars

\* ------------------------------------------ router: RedisStore, MemoryRouter
\* The legacy router keeps its memories in the same kind of keyspace, under
\* "mem:<id>", and the ids of a working scope in the Redis set "scope:<scope>".
MemKey(mem_id) == <<"mem", mem_id>>
ScopeKey(scope) == <<"scope", scope>>
\* r.keys("mem:*"), stripped of the prefix
MemIds == {key[2] : key \in {k \in DOMAIN store : k[1] = "mem"}}
\* RedisStore.scope_ids: SMEMBERS of a key that is absent or expired is empty.
scope_ids(scope) == IF ScopeKey(scope) \in DOMAIN store THEN store[ScopeKey(scope)].val ELSE {}

\* RedisStore.fetch_all: "subset_ids or <every mem key>", then one GET per id;
\* a missing key gives no row.
\* subset_ids is <<>> for None and <<ids>> for a list.
fetch_all(subset_ids) ==
    LET ids == IF subset_ids # <<>> /\ subset_ids[1] # {} THEN subset_ids[1] ELSE MemIds
    IN  {i \in ids : MemKey(i) \in DOMAIN store}

\* cosine_sim of the query's and the memory's embeddings; distinct texts embed
\* to orthogonal vectors.
CosineSim(query, text) == IF query = text THEN 1 ELSE 0

\* MemoryRouter.store_memory for the two types kept in Redis: SET with EX, and
\* for a working memory SADD to the scope's set and EXPIRE of the whole set.
store_memory(text, memory_type, ttl_seconds, working_scope) ==
    LET mem_id == MsgPool[nextUid]   \* str(uuid.uuid4())
        mem    == [id |-> mem_id, text |-> text, memory_type |-> memory_type,
                   created_at |-> now, embedding |-> text]
        scope  == IF Truthy(working_scope) THEN working_scope ELSE "default"
        s1     == (MemKey(mem_id) :> [val |-> mem, exp |-> now + ttl_seconds]) @@ store
    IN  /\ store' = IF memory_type = "working"
                    THEN (ScopeKey(scope) :> [val |-> scope_ids(scope) \cup {mem_id},
                                              exp |-> now + ttl_seconds]) @@ s1
                    ELSE s1
        /\ written' = (MemKey(mem_id) :>
                          [m |-> [memory_type |-> memory_type,
                                  scope |-> IF memory_type = "working" THEN scope
                                            ELSE NoneStr],
                           created |-> now, updated |-> NoneInt]) @@ written
        /\ nextUid' = nextUid + 1
        /\ ret' = [op |-> "store_memory", id |-> mem_id]
        /\ UNCHANGED <<now, index, db, nextDoc, nUpdates, inflight, chroma, graph>>

\* MemoryRouter.retrieve with where in {"short_term", "working"}: the rows of
\* fetch_all are scored, sorted by score and cut to top_k; rows of equal score
\* come in the order Redis listed them, which nothing fixes.
retrieve(query, where, top_k, working_scope) ==
    LET subset_ids == IF where = "working" /\ Truthy(working_scope)
                      THEN <<scope_ids(working_scope)>> ELSE <<>>
        red_rows   == fetch_all(subset_ids)
        Score(i)   == CosineSim(query, store[MemKey(i)].val.text)
    IN  /\ \E results \in SUBSET red_rows :
              /\ Cardinality(results) = IF Cardinality(red_rows) < top_k
                                        THEN Cardinality(red_rows) ELSE top_k
              /\ \A i \in results, j \in red_rows \ results : Score(i) >= Score(j)
              /\ ret' = [op |-> "retrieve", where |-> where,
                         working_scope |-> working_scope, ids |-> results]
        /\ UNCHANGED <<now, store, index, db, nextUid, nextDoc, nUpdates, written, inflight,
                       chroma, graph>>

\* Memories stored with and without a scope, with different lifetimes, and
\* retrieved by scope; "s3" is a scope nothing was stored under.
Scopes == {"s1", "s2", "s3"}
TopK == 5
MemoryInputs ==
    {[text |-> "t1", memory_type |-> "short_term", ttl_seconds |-> 2 * TickStep,
      working_scope |-> NoneStr],
     [text |-> "t1", memory_type |-> "working", ttl_seconds |-> TickStep,
      working_scope |-> "s1"],
     [text |-> "t2", memory_type |-> "working", ttl_seconds |-> 2 * TickStep,
      working_scope |-> "s2"],
     [text |-> "t2", memory_type |-> "working", ttl_seconds |-> 2 * TickStep,
      working_scope |-> NoneStr]}
NextRouter ==
    \/ \E m \in MemoryInputs :
          /\ RecordsBelow(MaxMemories)
          /\ store_memory(m.text, m.memory_type, m.ttl_seconds, m.working_scope)
    \/ \E where \in {"short_term", "working"}, top_k \in {1, TopK},
          working_scope \in Scopes \cup {NoneStr} :
          retrieve("t1", where, top_k, working_scope)
    \/ Tick

SpecRouter == Init /\ [][NextRouter]_vars

\* ================================================================== claims
WP == COLS["working_persisted"]
PersistArgs == {<<a, w>> : a \in Agents, w \in {"", "w1"}}

\* The step is the persist handler called with these arguments.
PersistStep(agent_id, workflow_id) ==
    ret'.op = "persist" /\ persist_working_memory(agent_id, workflow_id)

\* The live working-memory keys of an agent, and those of one workflow.
LiveWorking(agent_id) ==
    {k \in DOMAIN store : k[2] = "working" /\ k[3] = agent_id}
Matching(agent_id, workflow_id) ==
    {k \in LiveWorking(agent_id) : store[k].val.workflow_id = workflow_id}

\* The documents the step has appended to working_persisted.
NewDocs == SubSeq(db'[WP], Len(db[WP]) + 1, Len(db'[WP]))
\* The live source of a new document: the agent's record with its message_id.
Source(agent_id, doc) ==
    CHOOSE k \in LiveWorking(agent_id) : store[k].val.message_id = doc.message_id
\* The message ids a persist result carries.
ReturnedIds(result) ==
    IF "message_ids" \in DOMAIN result
    THEN {result.message_ids[i] : i \in 1..Len(result.message_ids)}
    ELSE {}
SeqToSet(q) == {q[i] : i \in 1..Len(q)}

\* C1: for every agent_id and workflow_id, persist_working_memory returns exactly
\* the message ids of the live working records of that agent whose workflow_id
\* is that workflow_id, and every document it creates carries the message id of
\* a distinct one of those records.
C1_IdentityPreserving ==
    [][\A p \in PersistArgs :
          PersistStep(p[1], p[2]) =>
              /\ ReturnedIds(ret'.val) =
                     {store[k].val.message_id : k \in Matching(p[1], p[2])}
              /\ {NewDocs[i].message_id : i \in 1..Len(NewDocs)} =
                     {store[k].val.message_id : k \in Matching(p[1], p[2])}
              /\ Len(NewDocs) = Cardinality(Matching(p[1], p[2]))]_vars

\* C2: every document persist_working_memory creates has the created_at of its
\* source record (read here at the source's own precision, the minute), not the
\* instant of the promotion.
C2_CreatedAtCopied ==
    [][\A p \in PersistArgs :
          PersistStep(p[1], p[2]) =>
              \A i \in 1..Len(NewDocs) :
                  Strftime(NewDocs[i].created_at) =
                      store[Source(p[1], NewDocs[i])].val.created_at]_vars

\* C3 as claimed: a record updated at instant T yields a document whose updated_at
\* is T; a record never updated yields a document without updated_at.
C3_UpdatedAtIsT ==
    [][\A p \in PersistArgs :
          PersistStep(p[1], p[2]) =>
              \A i \in 1..Len(NewDocs) :
                  LET T == written[Source(p[1], NewDocs[i])].updated
                  IN  IF T = NoneInt
                      THEN "updated_at" \notin DOMAIN NewDocs[i]
                      ELSE /\ "updated_at" \in DOMAIN NewDocs[i]
                           /\ NewDocs[i].updated_at = T]_vars

\* C3 as amended: a record updated at instant T yields a document whose updated_at
\* is the first instant of T's minute, whenever the promotion happens; a record
\* never updated yields a document without updated_at.
C3_UpdatedAtIsMinuteOfT ==
    [][\A p \in PersistArgs :
          PersistStep(p[1], p[2]) =>
              \A i \in 1..Len(NewDocs) :
                  LET T == written[Source(p[1], NewDocs[i])].updated
                  IN  IF T = NoneInt
                      THEN "updated_at" \notin DOMAIN NewDocs[i]
                      ELSE /\ "updated_at" \in DOMAIN NewDocs[i]
                           /\ NewDocs[i].updated_at = SecondsPerMinute * (T \div SecondsPerMinute)]_vars

\* A document of a record that was updated in an earlier minute than the one it
\* was persisted in.
C3_Witness ==
    /\ ret.op = "persist"
    /\ \E i \in 1..Len(db[WP]) :
          /\ "updated_at" \in DOMAIN db[WP][i]
          /\ db[WP][i].updated_at + SecondsPerMinute <= db[WP][i].persisted_at

\* The documents of working_persisted that carry (agent_id, message_id).
DocsOf(docs, agent_id, message_id) ==
    {i \in 1..Len(docs) : docs[i].agent_id = agent_id /\ docs[i].message_id = message_id}
CopiedFields ==
    {"memory", "run_id", "workflow_id", "stages", "current_stage",
     "context_log_summary", "user_query"}
\* doc.get(f): None for a field exclude_none dropped.
DocGet(doc, f) == Get(doc, f, OptionalFields[f])

C5_MessageIdUnique ==
    /\ \A c \in Collections : \A i, j \in 1..Len(db[c]) :
          (db[c][i].agent_id = db[c][j].agent_id /\ db[c][i].message_id = db[c][j].message_id)
              => i = j
    /\ \A k1, k2 \in DOMAIN store :
          (k1[2] = k2[2] /\ k1[3] = k2[3]
           /\ store[k1].val.message_id = store[k2].val.message_id) => k1 = k2

\* C6: the persist route's response carries the number of records the call
\* copied (0 when none matched) and the list of their message ids.
C6_PersistResponse ==
    ret.op = "persist" =>
        /\ ret.response.persisted_count =
               (IF ret.val.status = "success" THEN Len(ret.val.message_ids) ELSE 0)
        /\ ret.response.persisted_message_ids =
               (IF ret.val.status = "success" THEN ret.val.message_ids ELSE <<>>)

\* ------------------------------------------------- short-term tier claims
GetArgs == {<<t, a, f>> : t \in ShortTermType, a \in Agents, f \in GetFilters}
GetStep(g) ==
    ret'.op = "get_many" /\ get_short_term(g[1], g[2], g[3][1], g[3][2], g[3][3])
NoFilters == <<NoneStr, NoneStr, NoneStr>>
\* The live keys of one (category, agent_id).
LiveOf(mem_type, agent_id) == {k \in DOMAIN store : k[2] = mem_type /\ k[3] = agent_id}

\* C7: a record written by create and read back by get_many before its TTL
\* elapses, with no update or delete in between, comes back with the memory,
\* ttl, run_id and message_id that were written; an unfiltered get_many reads
\* back every such record.
C7_RoundTrip ==
    [][\A g \in GetArgs :
          GetStep(g) =>
              /\ \A i \in 1..Len(ret'.val) :
                    \E k \in LiveOf(g[1], g[2]) :
                        /\ written[k].m.message_id = ret'.val[i].message_id
                        /\ written[k].updated = NoneInt =>
                              /\ ret'.val[i].memory = written[k].m.memory
                              /\ ret'.val[i].ttl = written[k].m.ttl
                              /\ ret'.val[i].run_id = written[k].m.run_id
              /\ g[3] = NoFilters =>
                    \A k \in LiveOf(g[1], g[2]) :
                        \E i \in 1..Len(ret'.val) :
                            ret'.val[i].message_id = written[k].m.message_id]_vars

\* get_many has just returned a record that was never updated.
C7_Witness ==
    /\ ret.op = "get_many"
    /\ \E i \in 1..Len(ret.val) :
          /\ "updated_at" \notin DOMAIN ret.val[i].metadata
          /\ ret.val[i].memory = KV1
          /\ ret.val[i].run_id = "r1"

\* C8: get_many returns only records whose TTL has not elapsed; when it has
\* completed, the index it read holds no id of an expired record; and on an
\* index without such ids it removes nothing.
C8_LazyPruning ==
    [][\A g \in GetArgs :
          GetStep(g) =>
              /\ \A i \in 1..Len(ret'.val) :
                    \E k \in LiveOf(g[1], g[2]) :
                        /\ store[k].val.message_id = ret'.val[i].message_id
                        /\ store[k].exp > now
              /\ \A id_ \in SeqToSet(index'[Idx(g[1], g[2])]) :
                    Key(g[1], g[2], id_) \in DOMAIN store'
              /\ (\A id_ \in SeqToSet(index[Idx(g[1], g[2])]) :
                     Key(g[1], g[2], id_) \in DOMAIN store)
                    => index' = index
              /\ \A id_ \in SeqToSet(index[Idx(g[1], g[2])]) :
                    Key(g[1], g[2], id_) \in DOMAIN store
                        => id_ \in SeqToSet(index'[Idx(g[1], g[2])])]_vars

\* get_many has just pruned the id of an expired record.
C8_Witness ==
    /\ ret.op = "get_many"
    /\ ret.to_prune # <<>>
    /\ \A i \in AllIdx : \A j \in 1..Len(ret.to_prune) :
          ret.to_prune[j] \notin SeqToSet(index[i])

UpdateArgs ==
    {<<t, u>> : t \in ShortTermType,
                u \in UpdateInputs({ReplaceAndRemove, SetAndRemoveSameKey, AddKeyAndFields})}
\* The step is an update that found its record.
UpdateStep(x) ==
    /\ ret'.op = "update"
    /\ ret'.val # <<>>
    /\ ScanForMessageId(x[1], x[2].agent_id, x[2].message_id) # <<>>
    /\ update_short_term(x[1], x[2])
UpdatedKey(x) ==
    Key(x[1], x[2].agent_id, ScanForMessageId(x[1], x[2].agent_id, x[2].message_id)[1])

\* C9: a successful update with memory_updates U and remove_keys R on a payload P
\* leaves exactly P overridden by U with every key of R removed, in the stored
\* record and in the returned one.
C9_PayloadUpdate ==
    [][\A x \in UpdateArgs :
          UpdateStep(x) =>
              LET P == store[UpdatedKey(x)].val.memory
                  U == x[2].memory_updates
                  R == SeqToSet(x[2].remove_keys)
                  Q == store'[UpdatedKey(x)].val.memory
              IN  /\ DOMAIN Q = (DOMAIN P \cup DOMAIN U) \ R
                  /\ \A k \in DOMAIN Q : Q[k] = IF k \in DOMAIN U THEN U[k] ELSE P[k]
                  /\ ret'.val[1].memory = Q]_vars

\* The spec's example: {k: v1, old: x} updated with {k: v2}, remove [old] is {k: v2}.
C9_Witness ==
    /\ ret.op = "update"
    /\ ret.val # <<>>
    /\ ret.val[1].memory = ("k" :> "v2")
    /\ \E k \in DOMAIN written : written[k].m.memory = KV1 /\ store[k].val = ret.val[1]

DeleteArgs == {<<t, a>> : t \in ShortTermType, a \in Agents}
\* The step is delete_short_term without a message_id: delete_all.
DeleteAllStep(d) ==
    ret'.op = "delete" /\ delete_short_term(d[1], d[2], NoneStr)

\* C10: delete_all removes every primary value and the index of its
\* (category, agent_id), and returns the number of records it removed: n when
\* n records are live; a get_many afterwards finds nothing.
C10_DeleteAllCount ==
    [][\A d \in DeleteArgs :
          DeleteAllStep(d) =>
              /\ ret'.deleted_count = Cardinality(LiveOf(d[1], d[2]))
              /\ index'[Idx(d[1], d[2])] = <<>>
              /\ \A k \in DOMAIN store' : ~(k[2] = d[1] /\ k[3] = d[2])]_vars

\* ---------------------------------------------------- long-term tier claims
EP == COLS["episodic"]

\* C11: no step changes a stored episodic record: a document of the episodic
\* partition that is there before and after a step is the same document.
C11_EpisodicNeverMutated ==
    [][\A i \in 1..Len(db[EP]) : \A j \in 1..Len(db'[EP]) :
          db[EP][i].id = db'[EP][j].id => db[EP][i] = db'[EP][j]]_vars

\* The agent's episodic documents of the other subtypes, in order.
OtherSubtypes(docs, agent_id, subtype) ==
    SelectSeq(docs, LAMBDA d : d.agent_id = agent_id /\ d.subtype # subtype)
\* The step is one of the episodic DELETE routes.
DeleteEpisodicStep(subtype, agent_id, message_id) ==
    /\ ret'.op = "delete_long_term"
    /\ CASE subtype = "conversational" -> delete_episodic_conversational(agent_id, message_id)
         [] subtype = "summaries" -> delete_episodic_summaries(agent_id, message_id)
         [] subtype = "observations" -> delete_episodic_observations(agent_id, message_id)

\* C12: each per-subtype episodic DELETE route, with or without message_id,
\* leaves the agent's episodic records of the other subtypes as they were.
C12_DeleteOwnSubtypeOnly ==
    [][\A st \in EpisodicSubtype : \A mid \in {NoneStr, MsgPool[1]} :
          DeleteEpisodicStep(st, "a1", mid) =>
              OtherSubtypes(db'[EP], "a1", st) = OtherSubtypes(db[EP], "a1", st)]_vars

\* ------------------------------------------------- short-term update claims
RepeatedUpdateArgs ==
    {<<t, u>> : t \in ShortTermType,
                u \in UpdateInputs({ReplaceAndRemove, SetAndRemoveSameKey,
                                    AddKeyAndFields, AddKeyAndEmptyFields})}
\* The caller supplies a new, non-default ttl.
SuppliesNewTtl(update) ==
    update.ttl # NoneInt /\ update.ttl > 0 /\ update.ttl # DefaultTtl
\* The TTL a live record has: the lifetime its key was given when last written.
ExistingTtl(key) ==
    store[key].exp - (IF written[key].updated # NoneInt THEN written[key].updated
                      ELSE written[key].created)

\* C13: a successful update gives the record the caller's ttl when the caller
\* supplies one that is greater than 0 and not 600; otherwise the record keeps
\* the TTL it had.
C13_TtlResetOnlyIfSupplied ==
    [][\A x \in RepeatedUpdateArgs :
          UpdateStep(x) =>
              IF SuppliesNewTtl(x[2])
              THEN store'[UpdatedKey(x)].exp - now = x[2].ttl
              ELSE store'[UpdatedKey(x)].exp - now = ExistingTtl(UpdatedKey(x))]_vars

WorkingStringFields == {"workflow_id", "current_stage", "context_log_summary", "user_query"}

\* C14: in a successful update of a working-memory record, an empty string for
\* workflow_id, current_stage, context_log_summary or user_query, or an empty
\* stages list, leaves the stored field as it was (as an absent value does); a
\* non-empty value overwrites it.
C14_EmptyFieldIsNoOp ==
    [][\A x \in RepeatedUpdateArgs :
          (x[1] = "working" /\ UpdateStep(x)) =>
              LET old == store[UpdatedKey(x)].val
                  new == store'[UpdatedKey(x)].val
              IN  /\ \A f \in WorkingStringFields :
                        new[f] = IF x[2][f] \in {NoneStr, ""} THEN old[f] ELSE x[2][f]
                  /\ new.stages = IF x[2].stages = <<>> THEN old.stages ELSE x[2].stages
                  /\ ret'.val[1] = new]_vars

\* An update with empty strings and an empty stages list has just returned, and
\* the record still has the fields it was created with.
C14_Witness ==
    /\ ret.op = "update"
    /\ ret.val # <<>>
    /\ ret.val[1].memory_type = "working"
    /\ "c" \in DOMAIN ret.val[1].memory
    /\ ret.val[1].workflow_id = "w1"
    /\ ret.val[1].stages = <<"s1", "s2">>
    /\ ret.val[1].current_stage = "s1"
    /\ ret.val[1].user_query = "q"

\* ------------------------------------------------------- not-found claims
\* No live short-term record, and no long-term document, for the pair.
NoLiveRecord(mem_type, agent_id, message_id) ==
    \A k \in LiveOf(mem_type, agent_id) : store[k].val.message_id # message_id
NoDocument(memory_type, agent_id, message_id) ==
    \A i \in 1..Len(db[COLS[memory_type]]) :
        ~(db[COLS[memory_type]][i].agent_id = agent_id
          /\ db[COLS[memory_type]][i].message_id = message_id)
NothingChanges == store' = store /\ index' = index /\ db' = db

DeleteExecuteStep(c) ==
    inflight[c].op = "delete" /\ inflight'[c].op = "deleted"
        /\ delete_by_message_id_execute(c)
IndexMembers(mem_type, agent_id) ==
    SeqToSet(index[Idx(mem_type, agent_id)])

\* C16: delete_by_message_id removes the record's key and its index member in
\* one step, whatever other requests are suspended around it: the step that
\* removes the one removes the other, the reads before it change neither, so
\* no step of the delete leaves the key without its member or the member
\* without its key, and once the delete has
\* returned True no get_many of that (category, agent_id) returns the
\* message_id.
C16_DeleteAtomic ==
    [][/\ \A c \in Requests :
             DeleteExecuteStep(c) =>
                 /\ Key(inflight[c].mem_type, inflight[c].agent_id, inflight[c].id_)
                        \notin DOMAIN store'
                 /\ inflight[c].id_ \notin
                        SeqToSet(index'[Idx(inflight[c].mem_type, inflight[c].agent_id)])
       /\ \A c \in Requests, t \in ShortTermType, a \in Agents, mid \in TargetIds :
             (inflight'[c].op \in {"idle", "delete"}
              /\ delete_by_message_id_scan(c, t, a, mid))
                 => store' = store /\ index' = index
       /\ \A c \in Requests : \A t \in ShortTermType, a \in Agents :
             (inflight[c].op = "deleted" /\ inflight[c].mem_type = t
              /\ inflight[c].agent_id = a /\ ret'.op = "get_many"
              /\ get_short_term(t, a, NoneStr, NoneStr, NoneStr))
                 => \A i \in 1..Len(ret'.val) :
                        ret'.val[i].message_id # inflight[c].message_id
      ]_vars

\* A delete has returned True after another request's update, suspended across
\* it, wrote the key back; the index no longer has the member.
C16_Witness ==
    \E c \in Requests :
        /\ inflight[c].op = "deleted"
        /\ Key(inflight[c].mem_type, inflight[c].agent_id, inflight[c].id_) \in DOMAIN store
        /\ ret.op = "get_many"
        /\ inflight[c].id_ \notin IndexMembers(inflight[c].mem_type, inflight[c].agent_id)

\* ------------------------------------------- promotion leaves its source
\* The message ids of the index members of one (category, agent_id)'s live keys.
LiveMembers(idx_of, mem_type, agent_id) ==
    {id_ \in SeqToSet(idx_of[Idx(mem_type, agent_id)]) :
        Key(mem_type, agent_id, id_) \in DOMAIN store}

\* C17: persist_working_memory leaves its source alone: every working record
\* live before the call is stored after it with the same document and the same
\* expiry, is still a member of its index, and is dropped by the clock at that
\* expiry and not before.
C17_SourceKept ==
    [][/\ \A p \in PersistArgs :
             PersistStep(p[1], p[2]) =>
                 /\ \A k \in DOMAIN store :
                       k \in DOMAIN store' /\ store'[k] = store[k]
                 /\ \A a \in Agents :
                       LiveMembers(index', "working", a) = LiveMembers(index, "working", a)
       /\ (now' # now /\ Tick) =>
             \A k \in DOMAIN store : k \in DOMAIN store' <=> store[k].exp > now'
      ]_vars

\* A promotion has just copied a record that is still live in Redis.
C17_Witness ==
    /\ ret.op = "persist"
    /\ ret.val.status = "success"
    /\ \E k \in DOMAIN store :
          k[2] = "working" /\ store[k].val.message_id \in ReturnedIds(ret.val)
    /\ db[WP] # <<>>

\* C19: when no live working record of the agent has the workflow_id,
\* persist_working_memory returns status no_memories_found with
\* persisted_count 0 and writes nothing to MongoDB.
C19_NothingToPersist ==
    [][\A p \in PersistArgs :
          (PersistStep(p[1], p[2]) /\ Matching(p[1], p[2]) = {}) =>
              /\ ret'.val.status = "no_memories_found"
              /\ ret'.val.persisted_count = 0
              /\ db' = db]_vars

\* ------------------------------------------------- partial-batch failure
\* The batch get_many hands to the loop of persist_working_memory.
Batch(agent_id, workflow_id) ==
    GetManyResults("working", agent_id, NoneStr, NoneStr, workflow_id)
RaisesStep(agent_id, workflow_id, k) ==
    ret'.op = "persist_raised" /\ persist_working_memory_raises(agent_id, workflow_id, k)

\* C18: when the create of the k-th record of a batch raises, the caller gets
\* the error and no result, the k-1 records created before it are in
\* working_persisted, in order, after everything that was there, and no record
\* from the k-th on is created.
C18_PartialBatchKept ==
    [][\A p \in PersistArgs : \A k \in 1..MaxBatch :
          RaisesStep(p[1], p[2], k) =>
              /\ "val" \notin DOMAIN ret'
              /\ Len(db'[WP]) = Len(db[WP]) + k - 1
              /\ SubSeq(db'[WP], 1, Len(db[WP])) = db[WP]
              /\ \A i \in 1..(k - 1) :
                    NewDocs[i].message_id = Batch(p[1], p[2])[i].message_id
              /\ \A c \in Collections \ {WP} : db'[c] = db[c]]_vars

\* The second create of a batch of two has raised and the first record's copy
\* is in working_persisted.
C18_Witness ==
    /\ ret.op = "persist_raised"
    /\ ret.failed = 2
    /\ \E i \in 1..Len(db[WP]) : db[WP][i].message_id # ret.message_id

\* ------------------------------------------------------ version counting
\* The step in which request c's update writes its document and returns it.
UpdateOneStep(c) ==
    \/ inflight[c].op = "update" /\ ret'.op = "update_long_term"
          /\ ret'.val # <<>> /\ update_update_one(c)
    \/ inflight[c].op = "update_working_persisted" /\ ret'.op = "update_working_persisted"
          /\ ret'.val # <<>> /\ update_working_persisted_update_one(c)
\* The stored document a suspended update writes to.
TargetCol(c) ==
    IF inflight[c].op = "update" THEN COLS[inflight[c].update.memory_type] ELSE WP
TargetPos(c) ==
    FindOne(db[TargetCol(c)], inflight[c].update.agent_id, inflight[c].update.message_id)

\* C20: every successful LongTermStore.update and update_working_persisted
\* raises the stored document's version by exactly one and stamps updated_at,
\* however the requests interleave, so that n successful updates of a document
\* created with version 1 leave it at version 1 + n.
C20_VersionCountsUpdates ==
    [][\A c \in Requests :
          UpdateOneStep(c) =>
              /\ db'[TargetCol(c)][TargetPos(c)].version =
                     Get(db[TargetCol(c)][TargetPos(c)], "version", 1) + 1
              /\ db'[TargetCol(c)][TargetPos(c)].updated_at = now]_vars

\* ------------------------------------------ one update policy in both tiers
\* The durable document a body's update is aimed at, before the step.
PolicyDoc(col) == db[col][FindOne(db[col], "a1", MsgPool[1])]
PolicyDocAfter(col) == db'[col][FindOne(db'[col], "a1", MsgPool[1])]
\* The TTL tier's rule for an optional string field.
TtlTierField(old, given) == IF Truthy(given) THEN given ELSE old

\* C21: a durable-tier update that finds its document does to it what the TTL
\* tier's update does to a record: the payload becomes what memory.update and
\* the pops give (a key both set and removed is removed), and an optional
\* field given as None or as the empty string keeps its value.
C21_SamePolicyInBothTiers ==
    [][\A k \in PolicyKinds :
          /\ (FindOne(db[WP], "a1", MsgPool[1]) # 0
              /\ update_working_persisted(PersistedBody(k)))
                 => /\ ret'.op = "update_working_persisted"
                    /\ PolicyDocAfter(WP).memory =
                           ApplyMemoryUpdates(PolicyDoc(WP).memory, k.memory_updates,
                                              k.remove_keys)
                    /\ \A f \in WorkingStringFields :
                          PolicyDocAfter(WP)[f] = TtlTierField(PolicyDoc(WP)[f], k.f[f])
          /\ (FindOne(db[COLS["procedural"]], "a1", MsgPool[1]) # 0
              /\ update_long_term(LongTermBody(k)))
                 => /\ ret'.op = "update_long_term"
                    /\ PolicyDocAfter(COLS["procedural"]).memory =
                           ApplyMemoryUpdates(PolicyDoc(COLS["procedural"]).memory,
                                              k.memory_updates, k.remove_keys)
                    /\ PolicyDocAfter(COLS["procedural"]).name =
                           TtlTierField(PolicyDoc(COLS["procedural"]).name,
                                        k.f.current_stage)]_vars

\* ------------------------------------------------ no delete crosses tiers
\* C22: a delete of working records in Redis (by message id or all of an
\* agent's) and the expiry of a key leave every MongoDB document as it was, the
\* promoted copy with the same message_id included; a delete in
\* working_persisted leaves every Redis key, expiry and index as it was.
C22_NoCascade ==
    [][/\ \A a \in Agents, mid \in {NoneStr, MsgPool[1]} :
             (ret'.op = "delete" /\ delete_short_term("working", a, mid)) => db' = db
       /\ (now' # now /\ Tick) => db' = db
       /\ \A a \in Agents, mid \in {NoneStr, MsgPool[1]} :
             (ret'.op = "delete_working_persisted" /\ delete_working_persisted(a, mid))
                 => store' = store /\ index' = index]_vars

\* The Redis record has just been deleted and its promoted copy is still in
\* working_persisted.
C22_Witness ==
    /\ ret.op = "delete"
    /\ ret.status = "deleted"
    /\ \E i \in 1..Len(db[WP]) : db[WP][i].message_id = ret.message_id

\* ------------------------------------------- identity and creation time
\* The fields an update may write: the payload, the stamps, and the fields
\* the update models carry.
UpdatableFields ==
    {"memory", "updated_at", "version", "workflow_id", "stages", "current_stage",
     "context_log_summary", "user_query", "tags", "normalized_text", "subtype",
     "conversation_id", "name", "status", "config"}
\* d2 is d1 but for fields an update may write.
SameButUpdatable(d1, d2) ==
    /\ DOMAIN d1 \ UpdatableFields = DOMAIN d2 \ UpdatableFields
    /\ \A f \in DOMAIN d1 \ UpdatableFields : d1[f] = d2[f]
IsUpdateReturn(r) ==
    r.op \in {"update", "update_long_term", "update_working_persisted",
              "update_long_term_raised", "update_working_persisted_raised"}

\* The step is one of the three updates, found or not, raised or not.
AnyUpdateStep ==
    /\ IsUpdateReturn(ret')
    /\ \/ \E t \in ShortTermType : \E u \in UpdateInputs(IdentityKinds) :
             update_short_term(t, u)
       \/ \E k \in IdentityKinds : update_long_term(LongTermBody(k))
       \/ \E k \in IdentityKinds : update_working_persisted(PersistedBody(k))

\* C23: no update of either tier changes a record's message_id, agent_id or
\* created_at, whatever the names of the payload keys it sets and removes:
\* after an update every Redis document and every MongoDB document differs
\* from what it was only in its payload and in the fields updates carry.
C23_IdentityImmutable ==
    [][AnyUpdateStep =>
          /\ DOMAIN store' = DOMAIN store
          /\ \A k \in DOMAIN store :
                /\ SameButUpdatable(store[k].val, store'[k].val)
                /\ store'[k].val.message_id = store[k].val.message_id
                /\ store'[k].val.agent_id = store[k].val.agent_id
                /\ store'[k].val.created_at = store[k].val.created_at
          /\ \A c \in Collections :
                /\ Len(db'[c]) = Len(db[c])
                /\ \A i \in 1..Len(db[c]) :
                      /\ SameButUpdatable(db[c][i], db'[c][i])
                      /\ db'[c][i].message_id = db[c][i].message_id
                      /\ db'[c][i].agent_id = db[c][i].agent_id
                      /\ db'[c][i].created_at = db[c][i].created_at]_vars

\* A durable update has just set a payload key named message_id.
C23_Witness ==
    /\ ret.op \in {"update_long_term", "update_working_persisted"}
    /\ ret.val # <<>>
    /\ "message_id" \in DOMAIN ret.val[1].memory
    /\ ret.val[1].message_id = MsgPool[1]

\* ------------------------------------------------ updated_at in metadata
\* The live key of (category, agent_id) that holds a message id.
KeyOfMessage(mem_type, agent_id, message_id) ==
    CHOOSE k \in LiveOf(mem_type, agent_id) : store[k].val.message_id = message_id

\* C24: the metadata get_many returns for a record has updated_at exactly when
\* an update of that record has succeeded since it was created.
C24_UpdatedAtIffUpdated ==
    [][\A t \in ShortTermType, a \in Agents :
          (ret'.op = "get_many" /\ get_short_term(t, a, NoneStr, NoneStr, NoneStr)) =>
              /\ Len(ret'.val) = Cardinality(LiveOf(t, a))
              /\ \A i \in 1..Len(ret'.val) :
                    ("updated_at" \in DOMAIN ret'.val[i].metadata)
                        <=> written[KeyOfMessage(t, a, ret'.val[i].message_id)].updated
                                # NoneInt]_vars

\* get_many has just returned a record with updated_at in its metadata.
C24_Witness ==
    /\ ret.op = "get_many"
    /\ \E i \in 1..Len(ret.val) : "updated_at" \in DOMAIN ret.val[i].metadata
    /\ nUpdates > 0

\* ------------------------------------------------ invalid relation types
\* C25: a relation whose type fails ^[A-Z][A-Z0-9_]*$ is refused before the
\* graph is touched, on the route and in process_text: the route leaves the
\* graph as it was, and process_text leaves the graph it would have left had
\* the extraction not held the invalid relationships at all.
C25_InvalidRelationNoMutation ==
    [][/\ \A payload \in RelationPayloads :
             (ret'.op = "upsert_relation"
              /\ ~RelTypeMatches(NormalizeRelation(payload.relation))
              /\ upsert_relation(payload))
                 => graph' = graph
       /\ \A x \in Extractions :
             (ret'.op = "process_text" /\ process_text(x, "a1"))
                 => graph' = ProcessedGraph(graph,
                                 [x EXCEPT !.relationships = ValidRelationships(@)], "a1")
      ]_vars

\* ------------------------------------------------ failed semantic update
\* C26: when the embedding call fails during a semantic update, the record
\* stored for that (agent_id, message_id) is still present and unchanged.
C26_FailedUpdateKeepsRecord ==
    [][\A u \in SemanticUpdates :
          (/\ ret'.op = "update_semantic"
           /\ ChromaGet(chroma[Collection(u.agent_id)], u.message_id) # <<>>
           /\ update_semantic(u, FALSE))
              => ChromaGet(chroma'[Collection(u.agent_id)], u.message_id)
                     = ChromaGet(chroma[Collection(u.agent_id)], u.message_id)
      ]_vars

\* ------------------------------------------------------- filtered reads
ReadArgs == {<<t, f>> : t \in ShortTermType, f \in ReadFilters}
\* A live document carries the value of every filter that was supplied.
EqualsSupplied(data, f) ==
    /\ f[1] # NoneStr => Get(data, "message_id", NoneStr) = f[1]
    /\ f[2] # NoneStr => Get(data, "run_id", NoneStr) = f[2]
    /\ f[3] # NoneStr => Get(data, "workflow_id", NoneStr) = f[3]
\* The live keys of (category, a1) that carry every supplied filter value.
MatchingLive(mem_type, f) ==
    {k \in LiveOf(mem_type, "a1") : EqualsSupplied(store[k].val, f)}

\* C27: get_many returns exactly the live records of its (category, agent_id)
\* that carry every supplied filter value, each once, newest created first;
\* hence the empty list when none match.
C27_GetManyExact ==
    [][\A g \in ReadArgs :
          (ret'.op = "get_many"
           /\ get_short_term(g[1], "a1", g[2][1], g[2][2], g[2][3]))
              => /\ Len(ret'.val) = Cardinality(MatchingLive(g[1], g[2]))
                 /\ \A k \in MatchingLive(g[1], g[2]) :
                       \E i \in 1..Len(ret'.val) :
                           ret'.val[i] = CleanResult(g[1], store[k].val)
                 /\ \A i, j \in 1..Len(ret'.val) :
                       i < j =>
                           \A ki, kj \in MatchingLive(g[1], g[2]) :
                               (/\ store[ki].val.message_id = ret'.val[i].message_id
                                /\ store[kj].val.message_id = ret'.val[j].message_id)
                                   => written[ki].created >= written[kj].created
      ]_vars

\* ----------------------------------------------------------- lost updates
\* The write of a suspended TTL-tier update.
SetStep(c) == inflight[c].op = "update_short_term" /\ ret'.op = "update" /\ update_set(c)

\* C28: the read-modify-write of update is not transactional and the last
\* write wins: whatever was written to the key since a call read it, the call's
\* SET stores exactly the document the call computed from what it read, and the
\* call returns that document as its success.  (The lost update itself is the
\* state C28_Witness.)
C28_LastWriteWins ==
    [][\A c \in Requests :
          SetStep(c) =>
              /\ store'[inflight[c].key].val = inflight[c].data
              /\ ret'.val = <<inflight[c].data>>
      ]_vars
\* Both calls have returned success, one having set k and the other added n to
\* the same record, and the stored payload holds k's change without n.
C28_Witness ==
    /\ inflight["c1"].op = "updated" /\ inflight["c2"].op = "updated"
    /\ inflight["c1"].key = inflight["c2"].key
    /\ inflight["c1"].data.memory = ("n" :> "v3") @@ KV1
    /\ inflight["c2"].data.memory = ("k" :> "v2")
    /\ inflight["c1"].key \in DOMAIN store
    /\ store[inflight["c1"].key].val.memory = ("k" :> "v2")

\* ------------------------------------------------- ttl field and expiry
\* C29: for every live TTL-tier record, the expiry duration most recently
\* applied to its primary value equals the ttl field stored in the record
\* (the one get_many reports), also after an update that supplied a new TTL.
C29_TtlFieldGovernsExpiry ==
    \A key \in DOMAIN store : ExistingTtl(key) = store[key].val.ttl

\* ------------------------------------------- procedural update overwrites
\* The position of the procedural record a PATCH body names (0 when none).
ProceduralPos(u) == FindOne(db[COLS["procedural"]], u.agent_id, u.message_id)
\* The supplied fields are in the document d.
Overwritten(d, u) ==
    /\ \A f \in {"subtype", "name", "status", "change_note"} :
          u[f] # NoneStr => (f \in DOMAIN d /\ d[f] = u[f])
    /\ u.steps # <<>> => ("steps" \in DOMAIN d /\ d.steps = u.steps)
    /\ \A key \in DOMAIN u.config_updates :
          key \in DOMAIN d.config /\ d.config[key] = u.config_updates[key]
    /\ \A key \in DOMAIN u.integration_updates :
          key \in DOMAIN d.integration /\ d.integration[key] = u.integration_updates[key]

\* C30: a PATCH /procedural that finds its record replaces each supplied field
\* among subtype, name, status, change_note and steps, and each key of
\* config_updates and integration_updates in config and integration, in the
\* record stored and in the record returned.
C30_SuppliedFieldsOverwrite ==
    [][\A u \in ProceduralUpdates :
          (/\ ret'.op = "update_long_term"
           /\ ProceduralPos(u) # 0
           /\ update_long_term(u))
              => /\ Overwritten(db'[COLS["procedural"]][ProceduralPos(u)], u)
                 /\ Overwritten(ret'.val[1], u)
      ]_vars

\* ------------------------------------------------- exact-match deletion
\* C31: after a durable-tier delete by message_id has returned True for
\* (agent_id, message_id), a get on that partition filtered by the same
\* agent_id and message_id returns no record.
C31_DeletedIsGone ==
    [][\A mid \in TargetIds :
          /\ (ret'.op = "delete_working_persisted" /\ ret'.status = "deleted"
              /\ delete_working_persisted("a1", mid))
                 => FindQuery(db'[COLS["working_persisted"]], "a1", NoneStr, mid, NoneStr) = <<>>
          /\ (ret'.op = "delete_long_term" /\ ret'.status = "deleted"
              /\ delete_procedural("a1", mid))
                 => FindQuery(db'[COLS["procedural"]], "a1", NoneStr, mid, NoneStr) = <<>>
      ]_vars

\* --------------------------------------------- index of live primary values
\* C32: under any interleaving of create, update, get_many, delete and expiry,
\* every live primary value has its id in the index of its (category,
\* agent_id), so get_many, update and delete can reach it.
C32_LiveValueIndexed ==
    \A key \in DOMAIN store :
        \E i \in 1..Len(index[Idx(key[2], key[3])]) : index[Idx(key[2], key[3])][i] = key[4]

\* ------------------------------------------------ update restarts expiry
\* C33: a successful update at time t makes the record expire at t + d, where d
\* is the supplied ttl when it is greater than 0 and not 600, and the ttl field
\* stored in the record otherwise; a record that was never updated expires ttl
\* seconds after its creation; the clock drops a record at its expiry and not
\* before.
C33_UpdateRestartsExpiry ==
    [][/\ \A x \in RepeatedUpdateArgs :
             UpdateStep(x) =>
                 store'[UpdatedKey(x)].exp =
                     now + (IF SuppliesNewTtl(x[2]) THEN x[2].ttl
                            ELSE store[UpdatedKey(x)].val.ttl)
       /\ \A key \in DOMAIN store' :
             written'[key].updated = NoneInt =>
                 store'[key].exp = written'[key].created + store'[key].val.ttl
       /\ (now' # now /\ Tick) =>
             \A key \in DOMAIN store : key \in DOMAIN store' <=> store[key].exp > now'
      ]_vars
\* An updated record is live at an instant at which, never updated, it would
\* have expired.
C33_Witness ==
    \E key \in DOMAIN store :
        /\ written[key].updated # NoneInt
        /\ now >= written[key].created + store[key].val.ttl

\* ------------------------------------------------------- lazy pruning
\* The ids of an index whose primary value is absent.
StaleIds(idx_of, a) ==
    {id_ \in SeqToSet(idx_of[Idx("cache", a)]) : Key("cache", a, id_) \notin DOMAIN store}
\* The step is a get_many or a delete_all.
PruningStep ==
    \/ ret'.op = "get_many"
       /\ \E a \in Agents, f \in GetFilters : get_short_term("cache", a, f[1], f[2], f[3])
    \/ ret'.op = "delete"
       /\ \E a \in Agents : delete_short_term("cache", a, NoneStr)

\* C34: get_many changes no primary value and no expiry, and removes from the
\* index only ids whose primary value was absent; the index entry of an expired
\* record is removed by get_many and delete_all only (update and
\* delete_by_message_id leave it).
C34_OnlyGetManyPrunes ==
    [][/\ \A a \in Agents, f \in GetFilters :
             (ret'.op = "get_many" /\ get_short_term("cache", a, f[1], f[2], f[3]))
                 => /\ store' = store
                    /\ SeqToSet(index[Idx("cache", a)]) \ SeqToSet(index'[Idx("cache", a)])
                           = StaleIds(index, a)
                    /\ \A b \in Agents \ {a} : index'[Idx("cache", b)] = index[Idx("cache", b)]
       /\ \A a \in Agents :
             (StaleIds(index, a) \ SeqToSet(index'[Idx("cache", a)]) # {}) => PruningStep
      ]_vars
\* A get_many has just pruned the id of an expired record.
C34_Witness ==
    /\ ret.op = "get_many"
    /\ ret.to_prune # <<>>
    /\ \A a \in Agents : StaleIds(index, a) = {}

\* ------------------------------------------- category and agent isolation
\* The step is a request issued for (working, a) in the TTL tier.
IssuedShortTerm(a) ==
    \/ \E req \in WorkingInputs : req.agent_id = a /\ add_short_term("working", req)
    \/ \E u \in UpdateInputs({ReplaceAndRemove}) :
          u.agent_id = a /\ update_short_term("working", u)
    \/ get_short_term("working", a, NoneStr, NoneStr, NoneStr)
    \/ \E mid \in {NoneStr, MsgPool[1]} : delete_short_term("working", a, mid)
\* The step is a request issued for (procedural, a) in the durable tier.
IssuedLongTerm(a) ==
    \/ \E m \in IsolationLongTermInputs : m.agent_id = a /\ add_long_term(m)
    \/ \E u \in IsolationLongTermUpdates : u.agent_id = a /\ update_long_term(u)
    \/ \E mid \in {NoneStr, MsgPool[1]} : delete_procedural(a, mid)
\* The step is a request issued for (semantic, a).
IssuedSemantic(a) ==
    \/ \E m \in IsolationSemanticInputs :
          m.agent_id = a /\ add_semantic(m, TRUE, NoExtraction)
    \/ \E u \in IsolationSemanticUpdates : u.agent_id = a /\ update_semantic(u, TRUE)
    \/ \E mid \in {NoneStr, MsgPool[1]} : delete_semantic(a, mid)
\* The documents of a collection that are not agent a's.
DocsOfOthers(docs, a) == SelectSeq(docs, LAMBDA d : d.agent_id # a)
\* The keys of the TTL tier that are not of (working, a).
KeysOfOthers(st, a) == {key \in DOMAIN st : key[2] # "working" \/ key[3] # a}

\* C35: a request issued for one (category, agent_id) leaves the records and
\* index entries of every other category and of every other agent_id as they
\* were, in the TTL tier, in the MongoDB collections and in the semantic store.
C35_Isolation ==
    [][/\ \A a \in Agents :
             IssuedShortTerm(a) =>
                 /\ KeysOfOthers(store', a) = KeysOfOthers(store, a)
                 /\ \A key \in KeysOfOthers(store, a) : store'[key] = store[key]
                 /\ \A i \in AllIdx : i # Idx("working", a) => index'[i] = index[i]
                 /\ db' = db /\ chroma' = chroma
       /\ \A a \in Agents :
             IssuedLongTerm(a) =>
                 /\ \A c \in Collections :
                       IF c = COLS["procedural"]
                       THEN DocsOfOthers(db'[c], a) = DocsOfOthers(db[c], a)
                       ELSE db'[c] = db[c]
                 /\ store' = store /\ index' = index /\ chroma' = chroma
       /\ \A a \in SemanticAgents :
             IssuedSemantic(a) =>
                 /\ \A b \in SemanticAgents \ {a} :
                       chroma'[Collection(b)] = chroma[Collection(b)]
                 /\ store' = store /\ index' = index /\ db' = db
      ]_vars

\* Two Entity nodes of the graph carry the same name.
DuplicateName(g) ==
    \E i, j \in 1..Len(g.nodes) : i # j /\ g.nodes[i].name = g.nodes[j].name

\* C36: after any sequence of upsert_entity and upsert_relation calls, with any
\* label sets, the graph holds at most one Entity node per name, and repeating
\* the call just made with the same arguments leaves the graph unchanged.
C36_OneEntityPerName ==
    [][/\ ~DuplicateName(graph')
       /\ \A payload \in EntityPayloads :
             (ret'.op = "upsert_entity"
                 /\ upsert_entity(payload.name, payload.labels, payload.props))
                 => UpsertEntity(graph', payload.name, payload.labels, payload.props) = graph'
       /\ \A payload \in RelationPayloads :
             (ret'.op = "upsert_relation" /\ upsert_relation(payload))
                 => RelationRouteGraph(graph', payload) = graph'
      ]_vars

\* The step is retrieve(query, where='working', working_scope=S).
RetrievedWorking(S) ==
    /\ ret'.op = "retrieve"
    /\ ret'.where = "working"
    /\ ret'.working_scope = S
    /\ \E top_k \in {1, TopK} : retrieve("t1", "working", top_k, S)

\* C37: retrieve(query, where='working', working_scope=S) returns only
\* memories whose ids are members of scope S in the key-value store, also for
\* a scope without members or whose set has expired, and never a memory stored
\* under another scope or as short_term.
C37_ScopedRetrieval ==
    [][\A S \in Scopes :
          RetrievedWorking(S) =>
              /\ ret'.ids \subseteq scope_ids(S)
              /\ \A i \in ret'.ids :
                    /\ written[MemKey(i)].m.memory_type = "working"
                    /\ written[MemKey(i)].m.scope = S
      ]_vars

\* The step is add_long_term for semantic memory m, with process_text raising
\* after it stored the entities of extraction x.
WrapperFailed(m, x) ==
    /\ ret'.op = "add_semantic"
    /\ Raises(x)
    /\ add_semantic(m, TRUE, x)

\* C38: when add_long_term is called with a semantic memory and process_text
\* raises, the vector-store write is kept, the call returns the generated
\* message_id, and the response's associative section reports status "error"
\* with 0 entities and 0 relationships created.
C38_WrapperFailureKeepsWrite ==
    [][\A m \in SemanticInputs, x \in SemanticExtractions :
          WrapperFailed(m, x) =>
              /\ ChromaGet(chroma'[Collection(m.agent_id)],
                           generate_message_id(nextUid)) # <<>>
              /\ ret'.val.message_id = generate_message_id(nextUid)
              /\ ret'.val.associative.status = "error"
              /\ ret'.val.associative.entities_created = 0
              /\ ret'.val.associative.relationships_created = 0
      ]_vars
\* A semantic write came back with a failed wrapper that had already stored
\* an entity, and the record is in the agent's collection.
C38_Witness ==
    /\ ret.op = "add_semantic"
    /\ ret.val.associative.status = "error"
    /\ graph.nodes # <<>>
    /\ ChromaGet(chroma[Collection(ret.val.agent_id)], ret.val.message_id) # <<>>

====
